---- MODULE Spec2Model ----
(***************************************************************************)
(* Knowledge acquisition and retrieval-orchestration core of the legal     *)
(* question-answering bot: the Relevance Gate (legal_content_filter.py),   *)
(* the Site Crawler (web_scraper.py), the Incremental Crawl Manager        *)
(* (incremental_scraper.py), the Retrieval Quality Gate                    *)
(* (knowledge_base.py) and the Fallback Search Orchestrator                *)
(* (dynamic_search.py).                                                    *)
(*                                                                         *)
(* Texts are sequences of tokens.  A token stands for a fixed piece of     *)
(* page text (a letter, a whitespace character, a symbol, a keyword, a     *)
(* block of filler letters); TokLen gives its length in characters.        *)
(* Scores are fixed-point integers; distances are hundredths.              *)
(***************************************************************************)
EXTENDS Integers, Sequences, FiniteSets, TLC

VARIABLES
    now,        \* wall clock, in hours
    stamp,      \* number of harvesting operations so far: the second-resolution
                \* timestamp that the next operation puts into its chunk ids
    edits,      \* number of changes made to the web site so far
    site,       \* the web: url -> [up, title, text, links]
    pages_info, \* IncrementalScraper.pages_info of the instance that ran last
    disk,       \* contents of pages_info.json
    kb,         \* the Chroma collection: a set of documents
    tracker,    \* ScrapingTracker.info (sites and totals)
    last,       \* what the last operation did and returned
    fIn,        \* SpecFilter: the (text, title, url) handed to is_legal_content
    fOut,       \* SpecFilter: what is_legal_content returned for fIn
    gIn,        \* SpecGate: the query and the store's answer to it
    gOut,       \* SpecGate: what should_use_dynamic_search returned
    flt,        \* SpecCalls: the attributes of the LegalContentFilter object
    calls,      \* SpecCalls: the calls of is_legal_content made so far, each
                \* with its arguments and what it returned
    filtered,   \* SpecCalls: what the last filter_scraped_content returned
    running_processes, \* SpecAdmin: the dictionary of admin_panel.py
    threads,    \* SpecAdmin: per process id, the positions of the thread that
                \* starts the command and of its worker thread
    sIn,        \* SpecSplit: the text handed to split_text and the chunk_size
                \* of the TextProcessor
    sOut,       \* SpecSplit: the chunks that split_text returned
    mgr,        \* SpecSteps: each IncrementalScraper instance's position in
                \* incremental_scrape and its in-memory pages_info
    runs        \* SpecSteps: numbers of runs started and of crashes so far

crawlVars == <<now, stamp, edits, site, pages_info, disk, kb, tracker, last>>
filterVars == <<fIn, fOut>>
gateVars == <<gIn, gOut>>
stepVars == <<mgr, runs>>
callVars == <<flt, calls, filtered>>
adminVars == <<running_processes, threads>>
splitVars == <<sIn, sOut>>
sideVars == <<callVars, adminVars, splitVars>>
vars == <<crawlVars, filterVars, gateVars, stepVars, sideVars>>

NoValue == "none"

(***************************************************************************)
(* Text layer                                                              *)
(***************************************************************************)

\* Whitespace characters (Python str.split / str.strip / regex \s).
Whitespace == {"sp", "nl"}

\* Characters that the second substitution of _clean_text deletes: anything
\* that is neither a word character, whitespace nor one of . , ! ? ; : - ( ) [ ]
\* (a guillemet, a quote, a slash, the numero sign).
SpecialChars == {"sym"}

\* Tokens that match one of the 33 disqualifying patterns (one match each).
NonLegalTokens == {"recept", "cena"}

\* The vocabulary of the model's texts, with the length of each token.
\*   "w"/"W"   a lowercase letter and its uppercase form
\*   "fill"    a block of 100 lowercase letters holding no keyword
\*   "zakon"   core_legal keyword, also an official-document marker
\*   "dogovor" core_legal keyword
\*   "belarus" belarus_legal keyword and jurisdiction marker
\*   "statya5" "статья 5": core_legal keyword, citation pattern, structure
\*   "soglasno" connective phrase: legal pattern and terminology
\*   "spravka" legal_documents keyword, also a procedural-content marker
\*   "recept", "cena" disqualifying patterns
\*   "punkt1"  a numbered point ("1. x"): structure
\*   "date"    a date ("12.05.2023"): structure
\*   "nomer"   a document number ("№ 5"): legal pattern and structure
TokLen(t) ==
    CASE t = "fill" -> 100
      [] t = "cena" -> 4
      [] t = "punkt1" -> 4
      [] t = "date" -> 10
      [] t = "nomer" -> 3
      [] t = "zakon" -> 5
      [] t = "recept" -> 6
      [] t \in {"dogovor", "spravka"} -> 7
      [] t \in {"belarus", "statya5", "soglasno"} -> 8
      [] t = "kak" -> 3
      [] t = "sajt" -> 4
      [] t = "nalog" -> 5
      [] t = "razvod" -> 6
      [] OTHER -> 1

RECURSIVE Rep(_, _)
Rep(tok, n) == IF n <= 0 THEN <<>> ELSE <<tok>> \o Rep(tok, n - 1)

RECURSIVE TextLen(_)
\* len(text)
TextLen(text) == IF text = <<>> THEN 0 ELSE TokLen(Head(text)) + TextLen(Tail(text))

\* str.lower()
Lower(text) == [i \in DOMAIN text |-> IF text[i] = "W" THEN "w" ELSE text[i]]

RECURSIVE LStrip(_)
LStrip(text) ==
    IF text # <<>> /\ Head(text) \in Whitespace THEN LStrip(Tail(text)) ELSE text

RECURSIVE RStrip(_)
RStrip(text) ==
    IF text # <<>> /\ text[Len(text)] \in Whitespace
    THEN RStrip(SubSeq(text, 1, Len(text) - 1)) ELSE text

\* str.strip()
Strip(text) == RStrip(LStrip(text))

RECURSIVE SubWhitespace(_)
\* re.sub(r'\s+', ' ', text): every run of whitespace becomes one space.
SubWhitespace(text) ==
    IF text = <<>> THEN <<>>
    ELSE IF Head(text) \in Whitespace
         THEN <<"sp">> \o SubWhitespace(LStrip(text))
         ELSE <<Head(text)>> \o SubWhitespace(Tail(text))

\* ' '.join(text.split())
SplitJoin(text) == Strip(SubWhitespace(text))

\* re.sub(r'[^\w\s\.\,\!\?\;\:\-\(\)\[\]]', '', text)
RemoveSpecial(text) == SelectSeq(text, LAMBDA t : t \notin SpecialChars)

\* WebScraper._clean_text
CleanText(text) == Strip(RemoveSpecial(SubWhitespace(text)))

\* Number of positions of text holding a token of S.
Count(text, S) == Cardinality({i \in DOMAIN text : text[i] \in S})

\* keyword in text (substring test, at token granularity)
Has(text, tok) == \E i \in DOMAIN text : text[i] = tok

(***************************************************************************)
(* Relevance Gate: LegalContentFilter                                      *)
(***************************************************************************)

\* Legal scores are counted in units of 1/LScale, total scores in 1/TScale.
LScale == 66 * 100
TScale == 10 * LScale

\* A threshold of 0.50 in place of 0.20.
HalfThreshold == (50 * TScale) \div 100

\* self.min_legal_score = 0.20, in units of 1/TScale
MinLegalScore == (20 * TScale) \div 100

\* _load_legal_keywords: per category, the keywords of the vocabulary that
\* belong to it, the length of the category's list in the source and its
\* weight in hundredths (weights of _calculate_legal_score).
LegalKeywords ==
    [core_legal       |-> [kw |-> {"zakon", "dogovor", "statya5"}, n |-> 36, w |-> 30],
     belarus_legal    |-> [kw |-> {"belarus"}, n |-> 15, w |-> 25],
     law_branches     |-> [kw |-> {}, n |-> 15, w |-> 20],
     legal_procedures |-> [kw |-> {}, n |-> 15, w |-> 15],
     legal_entities   |-> [kw |-> {}, n |-> 11, w |-> 10],
     legal_documents  |-> [kw |-> {"spravka"}, n |-> 15, w |-> 5]]

\* Tokens that match one of the 27 legal patterns (one match each).
LegalPatternTokens == {"statya5", "soglasno", "nomer"}

\* 'pravo.by' in url.lower()
UrlHasPravoBy(url) == url \in {"pravo.by/pi", "pravo.by/doc", "pravo.by/kod"}

\* Number of entries of legal_url_patterns that occur in the url ('pravo.by'
\* is the only one that occurs in a URL of the model).
UrlPatternCount(url) == IF UrlHasPravoBy(url) THEN 1 ELSE 0

Min(a, b) == IF a <= b THEN a ELSE b

\* _calculate_non_legal_score, in tenths: 0.1 per match, capped at 1.0
CalculateNonLegalScore(text) == Min(Count(text, NonLegalTokens), 10)

RECURSIVE CategorySum(_, _)
CategorySum(text, cats) ==
    IF cats = {} THEN 0
    ELSE LET c == CHOOSE x \in cats : TRUE
             k == LegalKeywords[c]
             category_score == Cardinality({kw \in k.kw : Has(text, kw)})
         IN  (category_score * k.w * LScale) \div (k.n * 100)
             + CategorySum(text, cats \ {c})

\* _calculate_legal_score, in units of 1/LScale
CalculateLegalScore(text, url) ==
    LET score == CategorySum(text, DOMAIN LegalKeywords)
        pattern_score == Count(text, LegalPatternTokens)   \* tenths
        url_score == UrlPatternCount(url)                   \* tenths
    IN  Min(score + (pattern_score * LScale) \div 100 + (url_score * LScale) \div 10,
            LScale)

\* _check_legal_structure, in tenths
CheckLegalStructure(text) ==
    Min((IF Has(text, "punkt1") THEN 3 ELSE 0)
        + (IF Has(Lower(text), "statya5") THEN 4 ELSE 0)
        + (IF Has(text, "date") THEN 2 ELSE 0)
        + (IF Has(text, "nomer") THEN 1 ELSE 0), 10)

\* _check_legal_terminology: found_terms of the 15 legal_terms
CheckLegalTerminology(text) == Min(Cardinality({t \in {"soglasno"} : Has(text, t)}), 15)

\* _generate_explanation: which of the three parts exceed 0.3, and the total
GenerateExplanation(legal_score, structure_score, terminology_found, total_score) ==
    LET parts == (IF 10 * legal_score > 3 * LScale THEN {"terms"} ELSE {})
                 \cup (IF structure_score > 3 THEN {"structure"} ELSE {})
                 \cup (IF 10 * terminology_found > 3 * 15 THEN {"terminology"} ELSE {})
    IN  [kind |-> IF parts # {} THEN "found" ELSE "insufficient",
         parts |-> parts, total |-> total_score]

\* An exclusion check that excludes nothing.
NeverExcluded(non_legal_score) == FALSE

\* The exclusion check of is_legal_content: non_legal_score > 0.5
IsExcluded(non_legal_score) == non_legal_score > 5

\* LegalContentFilter.__init__: the attribute that is not a fixed table
NewFilter == [min_legal_score |-> MinLegalScore]

\* LegalContentFilter.is_legal_content on the object self; score in units
\* of 1/TScale
IsLegalContentOf(self, text, title, url) ==
    IF text = <<>> \/ TextLen(Strip(text)) < 50
    THEN [is_legal |-> FALSE, score |-> 0, explanation |-> [kind |-> "short"]]
    ELSE
    LET full_text == Lower(title \o <<"sp">> \o text)
        non_legal_score == CalculateNonLegalScore(full_text)
    IN  IF IsExcluded(non_legal_score)
        THEN [is_legal |-> FALSE, score |-> (non_legal_score * TScale) \div 10,
              explanation |-> [kind |-> "nonlegal"]]
        ELSE
        LET legal_score == CalculateLegalScore(full_text, url)
            structure_score == CheckLegalStructure(text)
            terminology_found == CheckLegalTerminology(full_text)
            base == legal_score * ((6 * TScale) \div (10 * LScale))
                    + (structure_score * 25 * TScale) \div 1000
                    + (terminology_found * 15 * TScale) \div (15 * 100)
            bonus_by == IF Has(full_text, "belarus") \/ UrlHasPravoBy(url)
                        THEN TScale \div 10 ELSE 0
            bonus_doc == IF Has(full_text, "zakon") THEN (5 * TScale) \div 100 ELSE 0
            total_score == base + bonus_by + bonus_doc
        IN  [is_legal |-> total_score >= self.min_legal_score,
             score |-> total_score,
             explanation |-> GenerateExplanation(legal_score, structure_score,
                                                 terminology_found, total_score)]

\* is_legal_content of a filter as constructed
IsLegalContent(text, title, url) == IsLegalContentOf(NewFilter, text, title, url)

(***************************************************************************)
(* The web site and the Site Crawler: WebScraper                           *)
(***************************************************************************)

\* "pravo.by/pi" is the portal's section /pravovaya-informatsiya/, the first
\* of the general_urls; "pravo.by/doc" and "pravo.by/kod" are document pages
\* of the portal; "other.org/x" is a page of another site.
URLs == {"pravo.by/pi", "pravo.by/doc", "pravo.by/kod", "other.org/x"}

\* urlparse(url).netloc
Domain(url) == IF url = "other.org/x" THEN "other.org" ELSE "pravo.by"

\* hash(url): Python's hash of the string, different for the four URLs.
PyHash(url) ==
    CASE url = "pravo.by/pi" -> 1
      [] url = "pravo.by/doc" -> 2
      [] url = "pravo.by/kod" -> 5
      [] OTHER -> 4

\* The modulus of the short hash, 1000000 in add_to_knowledge_base, scaled
\* to the four URLs of the model.
HashModulus == 3

\* hash(url) % 1000000 of add_to_knowledge_base
UrlHash(url) == PyHash(url) % HashModulus

\* Page texts of the model (the visible text that get_text extracts).
TShort   == <<"zakon">>
TLegal   == <<"fill", "sp", "fill", "sp", "zakon">>
TLegal2  == <<"fill", "sp", "fill", "sp", "dogovor", "sp", "zakon">>
TQuoted  == <<"fill", "sp", "fill", "sp", "sym", "zakon", "sym">>
TRecipe  == <<"fill", "sp", "fill">> \o Rep("recept", 6)
TPlain   == <<"fill", "sp", "fill", "sp", "w">>

TitleText == <<"W", "w">>

\* session.get(url, timeout=10) followed by raise_for_status()
FetchOk(s, url) == s[url].up

\* WebScraper.get_legal_links: the keyword links of the page that stay on
\* the page's domain.
GetLegalLinks(s, url) == {l \in s[url].links : Domain(l) = Domain(url)}

\* Python's None, as a value that can be compared with the records below.
None == [ok |-> FALSE]

\* Minimum length of a page's cleaned content (scrape_single_page).
MinContentLength == 100

\* WebScraper.scrape_single_page: page_data, or None
ScrapeSinglePage(s, url) ==
    IF ~FetchOk(s, url) THEN None
    ELSE LET content == CleanText(s[url].text)
         IN  IF TextLen(content) < MinContentLength THEN None
             ELSE [ok |-> TRUE, url |-> url, title |-> Strip(s[url].title),
                   content |-> content, domain |-> Domain(url)]

(***************************************************************************)
(* Fingerprint Store and Incremental Crawl Manager: IncrementalScraper     *)
(***************************************************************************)

\* self.check_interval_hours
CheckIntervalHours == 24

\* timedelta(days=7) of _discover_site_urls, in hours
SiteMapCacheHours == 7 * 24

\* hashlib.md5(...).hexdigest(): the digest stands for the digested text
\* (no two texts of the model collide).
MD5(text) == <<"md5", text>>

\* IncrementalScraper._get_content_hash
GetContentHash(content) == MD5(SplitJoin(Strip(Lower(content))))

\* IncrementalScraper._load_pages_info when there is no file yet
EmptyPagesInfo == [pages |-> [u \in {} |-> None], site_maps |-> [d \in {} |-> None]]

\* IncrementalScraper._get_page_info (with _extract_main_content): the
\* fingerprint of the page's visible text, or None
GetPageInfo(s, url, t) ==
    IF ~FetchOk(s, url) THEN None
    ELSE LET content == s[url].text
         IN  [ok |-> TRUE, title |-> Strip(s[url].title),
              content_hash |-> GetContentHash(content),
              content_length |-> TextLen(content), check_time |-> t]

\* A fixed enumeration of a set of links (the order of list(set(links))).
RECURSIVE SetToSeq(_)
SetToSeq(S) ==
    IF S = {} THEN <<>>
    ELSE LET x == CHOOSE y \in S : TRUE IN <<x>> \o SetToSeq(S \ {x})

\* A traversal that collects every page of the start page's domain.
TraverseAll(urls_to_check, urls_found, checked_urls, fetched, max_pages, s) ==
    [urls |-> {u \in DOMAIN s : Domain(u) = Domain(Head(urls_to_check))},
     fetched |-> SetToSeq({u \in DOMAIN s : Domain(u) = Domain(Head(urls_to_check))})]

\* The while loop of _discover_site_urls: urls_to_check, urls_found,
\* checked_urls, and the log of the URLs fetched.
RECURSIVE Traverse(_, _, _, _, _, _)
Traverse(urls_to_check, urls_found, checked_urls, fetched, max_pages, s) ==
    IF urls_to_check = <<>> \/ Cardinality(urls_found) >= max_pages
    THEN [urls |-> urls_found, fetched |-> fetched]
    ELSE LET current_url == Head(urls_to_check)
             rest == Tail(urls_to_check)
             checked == checked_urls \cup {current_url}
         IN  IF current_url \in checked_urls
             THEN Traverse(rest, urls_found, checked_urls, fetched, max_pages, s)
             ELSE IF ~FetchOk(s, current_url)
             THEN Traverse(rest, urls_found, checked,
                           Append(fetched, current_url), max_pages, s)
             ELSE LET found == urls_found \cup {current_url}
                      new_links == {l \in GetLegalLinks(s, current_url) :
                                      l \notin checked
                                      /\ Cardinality(found) < max_pages}
                  IN  Traverse(rest \o SetToSeq(new_links), found, checked,
                               Append(fetched, current_url), max_pages, s)

\* A test that takes every stored site map for outdated.
AlwaysStale(info, domain, t) == FALSE

\* Whether the stored site map of the domain is used instead of a traversal.
SiteMapFresh(info, domain, t) ==
    /\ domain \in DOMAIN info.site_maps
    /\ t - info.site_maps[domain].last_scan < SiteMapCacheHours

\* IncrementalScraper._discover_site_urls: the URLs, the pages_info after
\* the call, the URLs fetched and whether the result had to be saved.
DiscoverSiteUrls(info, start_url, max_pages, s, t) ==
    LET domain == Domain(start_url)
    IN  IF SiteMapFresh(info, domain, t)
        THEN [urls |-> info.site_maps[domain].urls, info |-> info,
              fetched |-> <<>>, cached |-> TRUE]
        ELSE LET r == Traverse(<<start_url>>, {}, {}, <<>>, max_pages, s)
                 site_map == [urls |-> r.urls, last_scan |-> t,
                              total_urls |-> Cardinality(r.urls)]
                 maps == [d \in DOMAIN info.site_maps \cup {domain} |->
                            IF d = domain THEN site_map ELSE info.site_maps[d]]
             IN  [urls |-> r.urls, info |-> [info EXCEPT !.site_maps = maps],
                  fetched |-> r.fetched, cached |-> FALSE]

\* A test that finds every record due for a fetch.
AlwaysDue(page_info, t) == TRUE

\* The re-check test of check_for_changes: the record is due for a fetch
\* unless it was checked less than check_interval_hours ago.
DueForCheck(page_info, t) == ~(t - page_info.last_check < CheckIntervalHours)

\* The URLs that check_for_changes reports as deleted.
DeletedPages(known, urls, unreachable) == unreachable \cup (known \ urls)

\* The classification of check_for_changes, given the fingerprints fetched
\* for the URLs that were due (page[u] is what _get_page_info returned).
Classify(info, urls, due, page) ==
    [new |-> urls \ DOMAIN info.pages,
     changed |-> {u \in due : /\ page[u].ok
                              /\ info.pages[u].content_hash # page[u].content_hash},
     deleted |-> DeletedPages(DOMAIN info.pages, urls, {u \in due : ~page[u].ok}),
     info |-> [info EXCEPT !.pages =
                 [u \in DOMAIN info.pages |->
                    IF u \in due /\ page[u].ok
                    THEN [info.pages[u] EXCEPT
                            !.last_check = page[u].check_time,
                            !.content_hash = page[u].content_hash,
                            !.title = page[u].title]
                    ELSE info.pages[u]]],
     fetched |-> due]

\* The fingerprint fetches of check_for_changes.
Fingerprints(due, s, t) == [u \in due |-> GetPageInfo(s, u, t)]

\* The known URLs of urls that check_for_changes fetches.
Due(info, urls, t) == {u \in urls \cap DOMAIN info.pages : DueForCheck(info.pages[u], t)}

\* IncrementalScraper.check_for_changes: the three lists (as sets), the
\* pages_info it leaves (and saves) and the URLs it fetched.
CheckForChanges(info, urls, s, t) ==
    Classify(info, urls, Due(info, urls, t), Fingerprints(Due(info, urls, t), s, t))

(***************************************************************************)
(* Knowledge Store: KnowledgeBase over the Chroma collection               *)
(***************************************************************************)

\* The relevance cut-off of search_relevant_docs (distance < 0.9), the
\* general and the procedural thresholds of should_use_dynamic_search,
\* in hundredths.
RelevanceCutoff == 90
GeneralThreshold == 60
ProceduralThreshold == 35

\* Vocabulary of questions.
\*   "kak"     a stop word of _extract_keywords
\*   "spravka" one of the procedural_keywords
\*   "sajt"    one of the bot_keywords
\*   "razvod"  a key of topic_mappings
\*   "zakon"   one of the rb_specific_terms
\*   "nalog"   a word that is none of these
ProceduralKeywords == {"spravka"}
BotKeywords == {"sajt"}
StopWords == {"kak"}
RbSpecificTerms == {"zakon"}

\* procedural_content_keywords that occur in the vocabulary of texts
ProceduralContentKeywords == {"spravka"}

\* The set of tokens of a text.
Range(text) == {text[i] : i \in DOMAIN text}

\* Cosine distance between the embeddings of a query and of a document, in
\* hundredths: the closer the more keywords the two share.
EmbedDistance(query_text, document) ==
    LET shared == Cardinality((Range(Lower(query_text)) \cap Range(Lower(document)))
                              \ (Whitespace \cup {"w", "fill"}))
    IN  IF shared >= 2 THEN 30 ELSE IF shared = 1 THEN 55 ELSE 95

\* A document of the collection as the store returns it for a query.
Hit(query_text, d) ==
    [content |-> d.text, metadata |-> d, distance |-> EmbedDistance(query_text, d.text)]

RECURSIVE Ranked(_, _)
\* Hits in the order of the store's answer: nearest first.
Ranked(hits, n) ==
    IF n <= 0 \/ hits = {} THEN <<>>
    ELSE <<CHOOSE h \in hits : \A g \in hits : h.distance <= g.distance>>
         \o Ranked(hits \ {CHOOSE h \in hits : \A g \in hits : h.distance <= g.distance},
                   n - 1)

\* collection.query(query_texts=[query_text], n_results=n)
Nearest(coll, query_text, n) == Ranked({Hit(query_text, d) : d \in coll}, n)

\* A check that finds no id in the collection.
NeverExists(coll, doc_id) == FALSE

\* KnowledgeBase.document_exists
DocumentExists(coll, doc_id) == \E d \in coll : d.id = doc_id

\* KnowledgeBase.add_document: the collection afterwards and the returned
\* flag; storeOk is false when the store raises.
AddDocument(coll, doc, storeOk) ==
    IF Strip(doc.text) = <<>> THEN [coll |-> coll, ok |-> FALSE]
    ELSE IF ~storeOk THEN [coll |-> coll, ok |-> FALSE]
    ELSE IF DocumentExists(coll, doc.id) THEN [coll |-> coll, ok |-> FALSE]
    ELSE [coll |-> coll \cup {doc}, ok |-> TRUE]

\* A filter loop that keeps nothing.
NoDocs(raw) == <<>>

\* The filter loop of search_relevant_docs over the store's answer.
RelevantDocs(raw) == SelectSeq(raw, LAMBDA r : r.distance < RelevanceCutoff)

\* A search that returns the kept documents farthest first.
SearchFarthestFirst(query_text, raw) ==
    LET kept == RelevantDocs(raw)
    IN  [i \in 1..Len(kept) |-> kept[Len(kept) + 1 - i]]

\* KnowledgeBase.search_relevant_docs, given the store's answer to the
\* query (empty when the collection is empty or the store raises).
SearchRelevantDocsOn(query_text, raw) ==
    IF Strip(query_text) = <<>> THEN <<>>
    ELSE IF raw = <<>> THEN <<>>
    ELSE RelevantDocs(raw)

\* KnowledgeBase.search_relevant_docs on a collection
SearchRelevantDocs(coll, query_text, n_results, storeOk) ==
    IF ~storeOk THEN <<>>
    ELSE SearchRelevantDocsOn(query_text,
             Nearest(coll, query_text, Min(n_results, Cardinality(coll))))

\* The distance of the last document of the list.
LastDistance(docs) == docs[Len(docs)].distance

RECURSIVE MinDistance(_)
\* min(doc['distance'] for doc in relevant_docs), relevant_docs not empty
MinDistance(docs) ==
    IF Len(docs) = 1 THEN docs[1].distance
    ELSE Min(docs[1].distance, MinDistance(Tail(docs)))

\* A check that takes every query for a question about the bot.
AlwaysBot(query_text) == TRUE

\* is_bot_related of should_use_dynamic_search
IsBotRelated(query_text) == \E k \in BotKeywords : Has(Lower(query_text), k)

\* is_procedural of should_use_dynamic_search
IsProcedural(query_text) == \E k \in ProceduralKeywords : Has(Lower(query_text), k)

\* KnowledgeBase.should_use_dynamic_search, given the store's answer
ShouldUseDynamicSearchOn(query_text, raw) ==
    LET relevant_docs == SearchRelevantDocsOn(query_text, raw)
    IN  IF relevant_docs = <<>> THEN [needs_fallback |-> TRUE, docs |-> <<>>]
        ELSE
        LET best_distance == MinDistance(relevant_docs)
            best_doc_content == Lower(relevant_docs[1].content)
            has_procedural_content ==
                \E k \in ProceduralContentKeywords : Has(best_doc_content, k)
        IN  IF IsBotRelated(query_text)
            THEN [needs_fallback |-> FALSE, docs |-> relevant_docs]
            ELSE IF IsProcedural(query_text)
            THEN [needs_fallback |->
                      ~has_procedural_content \/ best_distance > ProceduralThreshold,
                  docs |-> relevant_docs]
            ELSE [needs_fallback |-> best_distance > GeneralThreshold,
                  docs |-> relevant_docs]

\* KnowledgeBase.should_use_dynamic_search(query_text, n_results=3)
ShouldUseDynamicSearch(coll, query_text, storeOk) ==
    ShouldUseDynamicSearchOn(query_text,
        IF storeOk THEN Nearest(coll, query_text, Min(3, Cardinality(coll)))
        ELSE <<>>)

(***************************************************************************)
(* Ingestion: filter_scraped_content, split_text, add_to_knowledge_base    *)
(***************************************************************************)

\* A page with the gate's verdict on it.
Judged(page_data, verdict) ==
    [url |-> page_data.url, title |-> page_data.title,
     content |-> page_data.content, domain |-> page_data.domain,
     is_legal |-> verdict.is_legal, legal_score |-> verdict.score]

\* The page as filter_scraped_content passes it on, with its legal_score.
Passed(j) ==
    [url |-> j.url, title |-> j.title, content |-> j.content,
     domain |-> j.domain, legal_score |-> j.legal_score]

\* LegalContentFilter.filter_scraped_content: the pages that pass the gate,
\* each with its legal_score.
FilterScrapedContent(scraped_data) ==
    {Passed(j) :
       j \in {k \in {Judged(p, IsLegalContent(p.content, p.title, p.url)) :
                       p \in {q \in scraped_data : q.content # <<>>}} :
                k.is_legal}}

\* TextProcessor.split_text for a text shorter than chunk_size minus
\* chunk_overlap, as all page texts of the model are: the structured split
\* yields one block, so _simple_split returns the stripped text.
SplitText(text) == IF Strip(text) = <<>> THEN <<>> ELSE <<Strip(text)>>

\* The documents that add_to_knowledge_base builds for one page: id
\* dynamic_{timestamp}_{url_hash}_chunk_{i}, chunk text and metadata.
PageDocuments(page_data, timestamp) ==
    LET chunks == SplitText(page_data.content)
    IN  [i \in DOMAIN chunks |->
            [id |-> <<"dynamic", timestamp, UrlHash(page_data.url), i - 1>>,
             text |-> chunks[i], source |-> "web_scraper",
             url |-> page_data.url, title |-> page_data.title,
             legal_score |-> page_data.legal_score]]

\* added_count after one call of add_document.
Tally(acc, one) ==
    [coll |-> one.coll, added |-> acc.added + (IF one.ok THEN 1 ELSE 0)]

RECURSIVE AddDocuments(_, _, _)
\* The inner loop of add_to_knowledge_base: add_document for each chunk.
AddDocuments(acc, docs, storeOk) ==
    IF docs = <<>> THEN acc
    ELSE AddDocuments(Tally(acc, AddDocument(acc.coll, Head(docs), storeOk)),
                      Tail(docs), storeOk)

RECURSIVE AddPages(_, _, _, _)
\* The outer loop of add_to_knowledge_base, over the filtered pages.
AddPages(acc, pages, timestamp, storeOk) ==
    IF pages = <<>> THEN acc
    ELSE AddPages(AddDocuments(acc, PageDocuments(Head(pages), timestamp), storeOk),
                  Tail(pages), timestamp, storeOk)

\* Every page, judged but not filtered.
AllPages(pages_data) ==
    {Passed(Judged(p, IsLegalContent(p.content, p.title, p.url))) : p \in pages_data}

\* The pages that add_to_knowledge_base chunks and upserts.
PagesToIngest(pages_data) == FilterScrapedContent(pages_data)

\* WebScraper.add_to_knowledge_base: the collection afterwards and the
\* number of chunks added.
AddToKnowledgeBase(coll, pages_data, timestamp, storeOk) ==
    IF pages_data = {} THEN [coll |-> coll, added |-> 0]
    ELSE AddPages([coll |-> coll, added |-> 0],
                  SetToSeq(PagesToIngest(pages_data)), timestamp, storeOk)

\* ScrapingTracker.update_scraping_info: sites and running totals
UpdateScrapingInfo(info, site_url, pages_scraped, chunks_added) ==
    [sites |-> info.sites \cup {Domain(site_url)},
     total_pages_scraped |-> info.total_pages_scraped + pages_scraped,
     total_chunks_added |-> info.total_chunks_added + chunks_added]

\* The record that the harvest loop of incremental_scrape writes for a page.
PageRecord(page_data, t) ==
    [content_hash |-> GetContentHash(page_data.content),
     title |-> page_data.title, last_check |-> t, last_scraped |-> t,
     content_length |-> TextLen(page_data.content)]

\* The pages that the loop over pages_to_scrape gets from
\* scrape_single_page.
ScrapePages(s, urls) == {ScrapeSinglePage(s, u) : u \in urls} \ {None}

\* pages_info after the harvest loop and the deletion loop of
\* incremental_scrape.
Records(info, deleted, scraped_data, t) ==
    [info EXCEPT !.pages =
       [u \in (DOMAIN info.pages \cup {p.url : p \in scraped_data}) \ deleted |->
          IF \E p \in scraped_data : p.url = u
          THEN PageRecord(CHOOSE p \in scraped_data : p.url = u, t)
          ELSE info.pages[u]]]

\* The return value of incremental_scrape after the harvest.
ScrapeResult(d, c, pages_scraped, chunks_added) ==
    [total_urls_checked |-> Cardinality(d.urls),
     new_pages |-> Cardinality(c.new),
     changed_pages |-> Cardinality(c.changed),
     deleted_pages |-> Cardinality(c.deleted),
     pages_scraped |-> pages_scraped,
     chunks_added |-> chunks_added]

\* The return value of incremental_scrape when there is nothing to scrape.
NothingToScrape(d, c) ==
    [total_urls_checked |-> Cardinality(d.urls),
     new_pages |-> 0, changed_pages |-> 0,
     deleted_pages |-> Cardinality(c.deleted),
     pages_scraped |-> 0, chunks_added |-> 0]

\* The end of incremental_scrape: tracker, save and result.
Finish(trk, start_url, d, c, scraped_data, info, add) ==
    [info |-> info, saved |-> info, coll |-> add.coll,
     tracker |-> UpdateScrapingInfo(trk, start_url, Cardinality(scraped_data),
                                    add.added),
     d |-> d, c |-> c, attempted |-> c.new \cup c.changed,
     scraped |-> {p.url : p \in scraped_data},
     result |-> ScrapeResult(d, c, Cardinality(scraped_data), add.added)]

\* incremental_scrape once the pages to scrape have been fetched.
Harvest(coll, trk, timestamp, start_url, t, d, c, scraped_data) ==
    Finish(trk, start_url, d, c, scraped_data,
           Records(c.info, c.deleted, scraped_data, t),
           AddToKnowledgeBase(coll, scraped_data, timestamp, TRUE))

\* incremental_scrape once check_for_changes has classified the URLs: it
\* returns at once when there is no new and no changed page.
AfterCheck(coll, trk, timestamp, start_url, s, t, d, c) ==
    IF c.new \cup c.changed = {}
    THEN [info |-> c.info, saved |-> c.info, coll |-> coll, tracker |-> trk,
          d |-> d, c |-> c, attempted |-> {}, scraped |-> {},
          result |-> NothingToScrape(d, c)]
    ELSE Harvest(coll, trk, timestamp, start_url, t, d, c,
                 ScrapePages(s, c.new \cup c.changed))

\* incremental_scrape once _discover_site_urls has returned.
AfterDiscovery(coll, trk, timestamp, start_url, s, t, d) ==
    AfterCheck(coll, trk, timestamp, start_url, s, t, d,
               CheckForChanges(d.info, d.urls, s, t))

\* IncrementalScraper.incremental_scrape from the loaded pages_info info0:
\* the pages_info it leaves in memory and in the file, the collection, the
\* tracker, the returned counts and what it did on the way.
IncrementalScrapeRun(info0, coll, trk, timestamp, start_url, max_pages, s, t) ==
    AfterDiscovery(coll, trk, timestamp, start_url, s, t,
                   DiscoverSiteUrls(info0, start_url, max_pages, s, t))

\* self.max_pages of WebScraper
DefaultMaxPages == 50

RECURSIVE ScrapeWebsiteLoop(_, _, _, _, _)
\* The while loop of WebScraper.scrape_website: urls_to_visit, visited_urls
\* and pages_data (page_count is its size).
ScrapeWebsiteLoop(urls_to_visit, visited_urls, pages_data, max_pages, s) ==
    IF urls_to_visit = <<>> \/ Cardinality(pages_data) >= max_pages THEN pages_data
    ELSE LET current_url == Head(urls_to_visit)
             rest == Tail(urls_to_visit)
             visited == visited_urls \cup {current_url}
             page_data == ScrapeSinglePage(s, current_url)
         IN  IF current_url \in visited_urls
             THEN ScrapeWebsiteLoop(rest, visited_urls, pages_data, max_pages, s)
             ELSE IF ~page_data.ok
             THEN ScrapeWebsiteLoop(rest, visited, pages_data, max_pages, s)
             ELSE LET new_links == {l \in GetLegalLinks(s, current_url) :
                                      l \notin visited /\ l \notin Range(rest)}
                  IN  ScrapeWebsiteLoop(rest \o SetToSeq(new_links), visited,
                                        pages_data \cup {page_data}, max_pages, s)

\* WebScraper.scrape_website
ScrapeWebsite(start_url, max_pages, s) ==
    ScrapeWebsiteLoop(<<start_url>>, {}, {},
                      IF max_pages = 0 THEN DefaultMaxPages ELSE max_pages, s)

\* scrape_and_add once scrape_website has returned pages.
AddScraped(trk, start_url, pages_data, add) ==
    [coll |-> add.coll,
     tracker |-> UpdateScrapingInfo(trk, start_url, Cardinality(pages_data), add.added),
     scraped |-> {p.url : p \in pages_data},
     result |-> [success |-> TRUE, pages_scraped |-> Cardinality(pages_data),
                 chunks_added |-> add.added]]

\* scrape_and_add, given the pages of scrape_website.
ScrapedAndAdd(coll, trk, timestamp, start_url, pages_data) ==
    IF pages_data = {}
    THEN [coll |-> coll, tracker |-> trk, scraped |-> {},
          result |-> [success |-> FALSE, pages_scraped |-> 0, chunks_added |-> 0]]
    ELSE AddScraped(trk, start_url, pages_data,
                    AddToKnowledgeBase(coll, pages_data, timestamp, TRUE))

\* WebScraper.scrape_and_add
ScrapeAndAddRun(coll, trk, timestamp, start_url, max_pages, s) ==
    ScrapedAndAdd(coll, trk, timestamp, start_url,
                  ScrapeWebsite(start_url, max_pages, s))

(***************************************************************************)
(* Fallback Search Orchestrator: DynamicSearcher                           *)
(***************************************************************************)

\* self.max_search_results
MaxSearchResults == 5

\* The extra length that search_and_add_to_knowledge_base asks of a page.
MinDynamicLength == 200

\* seq[:n]
Take(seq, n) == SubSeq(seq, 1, Min(n, Len(seq)))

\* At most n elements of a set (a list cut with [:n]).
TakeSet(S, n) ==
    IF Cardinality(S) <= n THEN S
    ELSE CHOOSE T \in SUBSET S : Cardinality(T) = n

\* DynamicSearcher._extract_keywords
ExtractKeywords(text) ==
    Take(SelectSeq(Lower(text),
                   LAMBDA w : w \notin Whitespace /\ w \notin StopWords
                              /\ TokLen(w) > 2), 10)

\* DynamicSearcher._generate_search_queries
GenerateSearchQueries(user_question) ==
    LET keywords == ExtractKeywords(user_question)
        main == <<user_question>>
        by_keywords == IF Len(keywords) > 1 THEN <<Take(keywords, 3)>> ELSE <<>>
        queries == main \o by_keywords
        terms == {t \in RbSpecificTerms : Has(Lower(user_question), t)}
        by_term == IF terms = {} THEN <<>>
                   ELSE LET term_query == <<CHOOSE t \in terms : TRUE>>
                                          \o Take(keywords, 2)
                        IN  IF term_query \in Range(queries) THEN <<>>
                            ELSE <<term_query>>
    IN  Take(queries \o by_term, 3)

\* DynamicSearcher._find_relevant_pages: the sections that topic_mappings
\* gives for the query, or else the general sections.
FindRelevantPages(query) ==
    LET relevant_urls == IF Has(Lower(query), "razvod") THEN {"pravo.by/doc"} ELSE {}
    IN  TakeSet(IF relevant_urls = {} THEN {"pravo.by/pi"} ELSE relevant_urls,
                MaxSearchResults)

\* DynamicSearcher._search_pravo_by; hits are the result links that the
\* portal's search pages give (none when the portal cannot be reached).
SearchPravoBy(query, hits) ==
    TakeSet(IF hits # {} THEN hits ELSE FindRelevantPages(query), MaxSearchResults)

\* An exception that leaves search_and_add_to_knowledge_base.
Propagated ==
    [answer |-> NoValue, success |-> FALSE, raised |-> TRUE, caught |-> FALSE]

\* The except clause of search_and_add_to_knowledge_base.
OnSearchException ==
    [answer |-> NoValue, success |-> FALSE, raised |-> FALSE, caught |-> TRUE]

\* A return statement of search_and_add_to_knowledge_base.
Return(answer, success) ==
    [answer |-> answer, success |-> success, raised |-> FALSE, caught |-> FALSE]

\* The steps of search_and_add_to_knowledge_base at which the model lets a
\* collaborator raise.
Faults == {"none", "queries", "filter", "store", "requery", "answer"}

\* What search_and_add_to_knowledge_base leaves and returns when it has
\* added nothing.
Quiet(coll, trk, scraped, admitted, ret) ==
    [coll |-> coll, tracker |-> trk, scraped |-> scraped, admitted |-> admitted,
     added |-> 0, requery |-> 0, ret |-> ret]

\* Lines 386-400: the answer from the re-query's documents.
Answered(add, trk, scraped_data, filtered_data, fault, relevant_docs) ==
    [coll |-> add.coll,
     tracker |-> UpdateScrapingInfo(trk, "pravo.by/pi", Cardinality(scraped_data),
                                    add.added),
     scraped |-> {p.url : p \in scraped_data},
     admitted |-> {p.url : p \in filtered_data},
     added |-> add.added, requery |-> Len(relevant_docs),
     ret |-> IF relevant_docs = <<>> THEN Return(NoValue, FALSE)
             ELSE IF fault = "answer" THEN OnSearchException
             ELSE Return("answer", TRUE)]

\* The same without the test of chunks_added: the re-query runs even when
\* nothing was added.
AddedUnchecked(coll, trk, user_question, scraped_data, filtered_data, fault, add) ==
    Answered(add, trk, scraped_data, filtered_data, fault,
             SearchRelevantDocs(add.coll, user_question, 5, fault # "requery"))

\* Lines 370-403: after add_to_knowledge_base.
Added(coll, trk, user_question, scraped_data, filtered_data, fault, add) ==
    IF add.added = 0
    THEN Quiet(add.coll, trk, {p.url : p \in scraped_data},
               {p.url : p \in filtered_data}, Return(NoValue, FALSE))
    ELSE Answered(add, trk, scraped_data, filtered_data, fault,
                  SearchRelevantDocs(add.coll, user_question, 5, fault # "requery"))

\* Lines 360-370: after filter_scraped_content.
Filtered(coll, trk, timestamp, user_question, scraped_data, fault, filtered_data) ==
    IF fault = "filter"
    THEN Quiet(coll, trk, {p.url : p \in scraped_data}, {}, OnSearchException)
    ELSE IF filtered_data = {}
    THEN Quiet(coll, trk, {p.url : p \in scraped_data}, {}, Return(NoValue, FALSE))
    ELSE Added(coll, trk, user_question, scraped_data, filtered_data, fault,
               AddToKnowledgeBase(coll, filtered_data, timestamp, fault # "store"))

\* The pages that the scraping loop of lines 340-352 keeps.
Scraped(s, urls) ==
    {p \in ScrapePages(s, urls) : TextLen(p.content) > MinDynamicLength}

\* Lines 354-360: after the scraping loop.
Fetched(coll, trk, timestamp, user_question, fault, scraped_data) ==
    IF scraped_data = {} THEN Quiet(coll, trk, {}, {}, Return(NoValue, FALSE))
    ELSE Filtered(coll, trk, timestamp, user_question, scraped_data, fault,
                  FilterScrapedContent(scraped_data))

\* Lines 331-341: after the searches.
Found(coll, trk, timestamp, user_question, fault, s, unique_urls) ==
    IF unique_urls = {} THEN Quiet(coll, trk, {}, {}, Return(NoValue, FALSE))
    ELSE Fetched(coll, trk, timestamp, user_question, fault,
                 Scraped(s, TakeSet(unique_urls, MaxSearchResults)))

\* Lines 323-331: the URLs found for the queries.
UniqueUrls(search_queries, hits) ==
    UNION {SearchPravoBy(search_queries[i], hits) : i \in DOMAIN search_queries}

\* DynamicSearcher.search_and_add_to_knowledge_base: the collection and the
\* tracker afterwards, the returned pair and what it did on the way.
SearchAndAddRun(coll, trk, timestamp, user_question, hits, fault, s) ==
    IF fault = "queries" THEN Quiet(coll, trk, {}, {}, OnSearchException)
    ELSE Found(coll, trk, timestamp, user_question, fault, s,
               UniqueUrls(GenerateSearchQueries(user_question), hits))

(***************************************************************************)
(* The answering path: LegalBot.handle_question                            *)
(***************************************************************************)

\* The chat is the sequence of the bot's messages as the user sees them in
\* the end; Telegram is taken to accept every message and every edit.

\* config.MAX_RESULTS
MaxResults == 10

\* The best distance above which handle_question starts the fallback
\* search (best_distance > 0.5), in hundredths.
QualityThreshold == 50

\* A service message of the bot.
Text(kind) == [kind |-> kind, docs |-> <<>>]

\* llm_service.get_answer(user_question, context_docs): the answer that the
\* language model generates from the documents.
GetAnswer(user_question, context_docs) == [kind |-> "answer", docs |-> context_docs]

\* message.answer(text): a new message in the chat.
MessageAnswer(chat, text) == Append(chat, text)

\* processing_msg.edit_text(text): the message at position i gets a new text.
MessageEditText(chat, i, text) == [chat EXCEPT ![i] = text]

\* A handler that leaves the chat as it is.
Unanswered(chat, user_question, relevant_docs, notice, apology) == chat

\* What handle_question does when the fallback search did not help or
\* raised: an answer from the documents it had, or else an apology.
AfterFailedSearch(chat, user_question, relevant_docs, notice, apology) ==
    IF relevant_docs # <<>>
    THEN MessageEditText(MessageEditText(chat, 1, Text(notice)), 1,
                         GetAnswer(user_question, relevant_docs))
    ELSE MessageEditText(chat, 1, Text(apology))

\* An exception raised while the searcher is being created.
CreationFailed(coll, trk) ==
    Quiet(coll, trk, {}, {}, [Return(NoValue, FALSE) EXCEPT !.raised = TRUE])

\* handle_question once the fallback search has ended with outcome r.
AfterSearch(chat, user_question, relevant_docs, r) ==
    [coll |-> r.coll, tracker |-> r.tracker, searched |-> TRUE,
     before |-> relevant_docs, ret |-> r.ret,
     chat |-> IF r.ret.raised
              THEN AfterFailedSearch(chat, user_question, relevant_docs,
                                     "error_generating", "search_error")
              ELSE IF r.ret.success /\ r.ret.answer # NoValue
              THEN MessageEditText(chat, 1, Text("dynamic_answer"))
              ELSE AfterFailedSearch(chat, user_question, relevant_docs,
                                     "not_found_generating", "no_info")]

\* handle_question once search_relevant_docs has returned: the fallback
\* search runs when there is no document or the best one is too far.
Decided(coll, trk, timestamp, user_question, hits, fault, s, relevant_docs, chat) ==
    IF relevant_docs # <<>> /\ ~(MinDistance(relevant_docs) > QualityThreshold)
    THEN [coll |-> coll, tracker |-> trk, searched |-> FALSE,
          before |-> relevant_docs, ret |-> Return(NoValue, FALSE),
          chat |-> MessageEditText(chat, 1, GetAnswer(user_question, relevant_docs))]
    ELSE AfterSearch(MessageEditText(chat, 1, Text("searching_portal")),
                     user_question, relevant_docs,
                     IF fault = "create" THEN CreationFailed(coll, trk)
                     ELSE SearchAndAddRun(coll, trk, timestamp, user_question,
                                          hits, fault, s))

\* LegalBot.handle_question; accepted is the verdict of is_legal_question.
HandleQuestionRun(coll, trk, timestamp, user_question, hits, fault, s, accepted) ==
    IF ~accepted
    THEN [coll |-> coll, tracker |-> trk, searched |-> FALSE, before |-> <<>>,
          ret |-> Return(NoValue, FALSE),
          chat |-> MessageAnswer(<<>>, Text("rejection"))]
    ELSE Decided(coll, trk, timestamp, user_question, hits, fault, s,
                 SearchRelevantDocs(coll, user_question, MaxResults, TRUE),
                 MessageAnswer(<<>>, Text("searching")))

(***************************************************************************)
(* The system: a site that changes, a clock, the harvesting operations     *)
(* that the bot's commands start, and the questions of the users           *)
(***************************************************************************)

\* Bounds of the exploration.
MaxOps == 2
MaxEdits == 1

\* Hours between the previous operation and a run of the crawl manager:
\* none, the re-check interval, the site map's lifetime.
Waits == {0, CheckIntervalHours, SiteMapCacheHours}

\* Arguments of the commands.
StartUrls == {"pravo.by/pi", "other.org/x"}
MaxPagesArgs == {1, 3}

\* Questions of the users.
Questions == {<<"zakon", "razvod">>, <<"kak", "nalog">>}

\* Result links that the portal's search can give (none when the portal
\* cannot be reached).
PortalHits == {{}, {"pravo.by/pi", "pravo.by/kod"}}

\* Texts that the site's owner may put on a page.
EditTexts == {TLegal2, TRecipe}

\* The site at the start.
InitSite ==
    [u \in URLs |->
        CASE u = "pravo.by/pi" ->
               [up |-> TRUE, text |-> TLegal, title |-> TitleText,
                links |-> {"pravo.by/doc", "pravo.by/kod", "other.org/x"}]
          [] u = "pravo.by/doc" ->
               [up |-> TRUE, text |-> TQuoted, title |-> TitleText,
                links |-> {"pravo.by/pi"}]
          [] u = "pravo.by/kod" ->
               [up |-> TRUE, text |-> TShort, title |-> TitleText, links |-> {}]
          [] OTHER ->
               [up |-> TRUE, text |-> TPlain, title |-> TitleText, links |-> {}]]

\* ScrapingTracker._load_scraping_info when there is no file yet
EmptyTracker == [sites |-> {}, total_pages_scraped |-> 0, total_chunks_added |-> 0]

InitCrawl ==
    /\ now = 0
    /\ stamp = 0
    /\ edits = 0
    /\ site = InitSite
    /\ pages_info = EmptyPagesInfo
    /\ disk = EmptyPagesInfo
    /\ kb = {}
    /\ tracker = EmptyTracker
    /\ last = [op |-> "start"]

\* The site's owner replaces the text of a page.
EditText(u, text) ==
    /\ edits < MaxEdits
    /\ text # site[u].text
    /\ site' = [site EXCEPT ![u].text = text]
    /\ edits' = edits + 1
    /\ last' = [op |-> "edit"]
    /\ UNCHANGED <<now, stamp, pages_info, disk, kb, tracker>>
    /\ UNCHANGED <<filterVars, gateVars, stepVars, sideVars>>

RECURSIVE Respaced(_)
\* The text with every blank followed by a line break, every lowercase
\* letter replaced by its uppercase form and a line break at the end.
Respaced(text) ==
    IF text = <<>> THEN <<"nl">>
    ELSE IF Head(text) \in Whitespace THEN <<Head(text), "nl">> \o Respaced(Tail(text))
    ELSE <<IF Head(text) = "w" THEN "W" ELSE Head(text)>> \o Respaced(Tail(text))

\* The site's owner changes only the whitespace and the letter case of a
\* page's text.
EditWhitespace(u) ==
    /\ edits < MaxEdits
    /\ site' = [site EXCEPT ![u].text = <<"sp">> \o Respaced(site[u].text)]
    /\ edits' = edits + 1
    /\ last' = [op |-> "whitespace_edit", url |-> u]
    /\ UNCHANGED <<now, stamp, pages_info, disk, kb, tracker>>
    /\ UNCHANGED <<filterVars, gateVars, stepVars, sideVars>>

\* A page goes away or comes back.
EditUp(u) ==
    /\ edits < MaxEdits
    /\ site' = [site EXCEPT ![u].up = ~site[u].up]
    /\ edits' = edits + 1
    /\ last' = [op |-> "edit"]
    /\ UNCHANGED <<now, stamp, pages_info, disk, kb, tracker>>
    /\ UNCHANGED <<filterVars, gateVars, stepVars, sideVars>>

\* The state after incremental_scrape has run with outcome r.
IncrementalScraped(wait, start_url, max_pages, r) ==
    /\ pages_info' = r.info
    /\ disk' = r.saved
    /\ kb' = r.coll
    /\ tracker' = r.tracker
    /\ last' = [op |-> "incremental_scrape", wait |-> wait,
                start_url |-> start_url, max_pages |-> max_pages,
                rerun |-> /\ last.op = "incremental_scrape"
                          /\ last.start_url = start_url
                          /\ last.max_pages = max_pages,
                known |-> DOMAIN disk.pages, loaded |-> disk,
                urls |-> r.d.urls, cached |-> r.d.cached,
                discovered |-> [fetched |-> r.d.fetched, info |-> r.d.info],
                checked |-> r.c.info,
                respaced |-> IF last.op = "whitespace_edit" THEN {last.url} ELSE {},
                up |-> {u \in URLs : site[u].up},
                new |-> r.c.new, changed |-> r.c.changed,
                deleted |-> r.c.deleted, fetched |-> r.c.fetched,
                attempted |-> r.attempted, scraped |-> r.scraped,
                result |-> r.result]

\* /incremental_scrape: handle_update makes a new IncrementalScraper, which
\* loads pages_info from the file, and runs incremental_scrape, wait hours
\* after the previous operation.
IncrementalScrape(wait, start_url, max_pages) ==
    /\ stamp < MaxOps
    /\ now' = now + wait
    /\ stamp' = stamp + 1
    /\ IncrementalScraped(wait, start_url, max_pages,
                          IncrementalScrapeRun(disk, kb, tracker, stamp, start_url,
                                               max_pages, site, now'))
    /\ UNCHANGED <<edits, site, filterVars, gateVars, stepVars, sideVars>>

\* The state after scrape_and_add has run with outcome r.
ScrapedAndAdded(r) ==
    /\ kb' = r.coll
    /\ tracker' = r.tracker
    /\ last' = [op |-> "scrape_and_add", scraped |-> r.scraped, result |-> r.result]

\* /scrape: WebScraper.scrape_and_add
ScrapeAndAdd(start_url, max_pages) ==
    /\ stamp < MaxOps
    /\ stamp' = stamp + 1
    /\ ScrapedAndAdded(ScrapeAndAddRun(kb, tracker, stamp, start_url, max_pages, site))
    /\ UNCHANGED <<now, edits, site, pages_info, disk>>
    /\ UNCHANGED <<filterVars, gateVars, stepVars, sideVars>>

\* The state after search_and_add_to_knowledge_base has run with outcome r;
\* gate is the Retrieval Quality Gate's verdict on the question beforehand.
SearchedAndAdded(user_question, fault, gate, r) ==
    /\ kb' = r.coll
    /\ tracker' = r.tracker
    /\ last' = [op |-> "search_and_add", question |-> user_question,
                fault |-> fault, gate |-> gate.needs_fallback, empty |-> kb = {},
                scraped |-> r.scraped, admitted |-> r.admitted,
                added |-> r.added, grown |-> r.coll \ kb,
                requery |-> r.requery, ret |-> r.ret]

\* A question for which the fallback search runs.
SearchAndAdd(user_question, hits, fault) ==
    /\ stamp < MaxOps
    /\ stamp' = stamp + 1
    /\ SearchedAndAdded(user_question, fault,
                        ShouldUseDynamicSearch(kb, user_question, TRUE),
                        SearchAndAddRun(kb, tracker, stamp, user_question, hits,
                                        fault, site))
    /\ UNCHANGED <<now, edits, site, pages_info, disk>>
    /\ UNCHANGED <<filterVars, gateVars, stepVars, sideVars>>

\* The steps at which the model lets the fallback search of handle_question
\* fail: those of the search itself and the creation of the searcher.
QuestionFaults == {"none", "store", "requery", "create"}

\* The state after handle_question has run with outcome r.
QuestionHandled(user_question, fault, accepted, r) ==
    /\ kb' = r.coll
    /\ tracker' = r.tracker
    /\ last' = [op |-> "handle_question", question |-> user_question,
                fault |-> fault, accepted |-> accepted,
                searched |-> r.searched, before |-> r.before,
                ret |-> r.ret, chat |-> r.chat]

\* A user sends a question to the bot.
HandleQuestion(user_question, hits, fault, accepted) ==
    /\ stamp < MaxOps
    /\ stamp' = stamp + 1
    /\ QuestionHandled(user_question, fault, accepted,
                       HandleQuestionRun(kb, tracker, stamp, user_question, hits,
                                         fault, site, accepted))
    /\ UNCHANGED <<now, edits, site, pages_info, disk>>
    /\ UNCHANGED <<filterVars, gateVars, stepVars, sideVars>>

(***************************************************************************)
(* The Relevance Gate on its own: is_legal_content applied to a text       *)
(***************************************************************************)

\* Bounds of the texts: disqualifying matches, runs of a hundred letters
\* and citations of articles.
MaxMatches == 7
MaxFill == 2
MaxCitations == 90

\* Marks of a document's structure that a text may carry.
StructureWords == {"punkt1", "date", "nomer"}

\* Legal words that a text may carry.
FilterWords == {"zakon", "belarus", "statya5", "soglasno"}

RECURSIVE Words(_)
\* The words of a set, each followed by a blank.
Words(S) ==
    IF S = {} THEN <<>>
    ELSE LET x == CHOOSE y \in S : TRUE IN <<x, "sp">> \o Words(S \ {x})

\* A text with the given numbers of runs and of disqualifying matches.
FilterText(nFill, nRecept, nCena, nCite, words) ==
    Rep("fill", nFill) \o Words(words) \o Rep("statya5", nCite)
    \o Rep("recept", nRecept) \o Rep("cena", nCena)

FilterIdle ==
    /\ fIn = [text |-> <<>>, title |-> <<>>, url |-> "other.org/x"]
    /\ fOut = [done |-> FALSE]

InitFilter ==
    /\ \E nFill \in 0..MaxFill, nRecept \in 0..MaxMatches, nCena \in 0..1,
          nCite \in {0, MaxCitations},
          words \in SUBSET FilterWords, marks \in SUBSET StructureWords,
          url \in URLs :
          fIn = [text |-> FilterText(nFill, nRecept, nCena, nCite, words \cup marks),
                 title |-> TitleText, url |-> url]
    /\ fOut = [done |-> FALSE]

\* legal_filter.is_legal_content(text, title, url)
Filter ==
    /\ ~fOut.done
    /\ fOut' = [done |-> TRUE,
                res |-> IsLegalContent(fIn.text, fIn.title, fIn.url)]
    /\ UNCHANGED <<fIn, crawlVars, gateVars, stepVars, sideVars>>

(***************************************************************************)
(* One LegalContentFilter object called again and again: is_legal_content  *)
(* directly and through filter_scraped_content                             *)
(***************************************************************************)

\* Bounds: calls of is_legal_content, pages of a batch.
MaxCalls == 3
MaxBatch == 2

\* Texts and addresses handed to the filter.
CallTexts == {TLegal, TRecipe, <<>>}
CallUrls == {"pravo.by/doc", "other.org/x"}
CallPages == [url : CallUrls, title : {TitleText}, content : CallTexts]

\* A call that leaves the object with a threshold of 0.50.
Tightened(self) == [self EXCEPT !.min_legal_score = HalfThreshold]

\* The object after a call of is_legal_content: the method assigns no
\* attribute of self.
AfterIsLegal(self) == self

\* The record of one call: its arguments, the other pages of its batch and
\* what it returned.
CallRecord(self, page_data, peers) ==
    [text |-> page_data.content, title |-> page_data.title, url |-> page_data.url,
     peers |-> peers,
     res |-> IsLegalContentOf(self, page_data.content, page_data.title, page_data.url)]

RECURSIVE FilterLoop(_, _, _, _)
\* The loop of filter_scraped_content from page i on: the object, the calls
\* made and filtered_data at its end.
FilterLoop(self, scraped_data, i, acc) ==
    IF i > Len(scraped_data) THEN [self |-> self, log |-> acc.log, out |-> acc.out]
    ELSE IF scraped_data[i].content = <<>>
    THEN FilterLoop(self, scraped_data, i + 1, acc)
    ELSE LET c == CallRecord(self, scraped_data[i],
                             {scraped_data[k] : k \in DOMAIN scraped_data \ {i}})
         IN  FilterLoop(AfterIsLegal(self), scraped_data, i + 1,
                 [log |-> Append(acc.log, c),
                  out |-> IF c.res.is_legal
                          THEN Append(acc.out,
                                   [url |-> c.url, title |-> c.title,
                                    content |-> c.text,
                                    legal_score |-> c.res.score])
                          ELSE acc.out])

CallsIdle ==
    /\ flt = NewFilter
    /\ calls = <<>>
    /\ filtered = <<>>

\* legal_filter.is_legal_content(text, title, url), called directly
IsLegalCall(page_data) ==
    /\ Len(calls) < MaxCalls
    /\ calls' = Append(calls, CallRecord(flt, page_data, {}))
    /\ flt' = AfterIsLegal(flt)
    /\ UNCHANGED <<filtered, crawlVars, filterVars, gateVars, stepVars, adminVars, splitVars>>

BatchFiltered(r) ==
    /\ Len(calls) + Len(r.log) <= MaxCalls
    /\ calls' = calls \o r.log
    /\ flt' = r.self
    /\ filtered' = r.out
    /\ UNCHANGED <<crawlVars, filterVars, gateVars, stepVars, adminVars, splitVars>>

\* legal_filter.filter_scraped_content(scraped_data)
FilterBatch(scraped_data) ==
    BatchFiltered(FilterLoop(flt, scraped_data, 1, [log |-> <<>>, out |-> <<>>]))

(***************************************************************************)
(* The Retrieval Quality Gate on its own: should_use_dynamic_search        *)
(* applied to an answer of the store                                       *)
(***************************************************************************)

\* Bound of the number of documents in the store's answer.
MaxDocs == 2

GateQueries ==
    {<<"nalog">>, <<"kak", "spravka">>, <<"sajt", "nalog">>,
     <<"sajt", "spravka">>, <<"sp">>}

\* Distances of the store's answers, in hundredths.
GateDistances == {20, 35, 36, 60, 61, 89, 90, 95}

\* Chunks of the store: one with and one without a procedural marker.
GateContents == {<<"zakon", "sp", "spravka">>, <<"zakon", "sp", "nalog">>}

GateDocs ==
    [content : GateContents, distance : GateDistances,
     metadata : {[source |-> "pdf"]}]

\* The store answers nearest first.
Sorted(raw) == \A i \in 1..(Len(raw) - 1) : raw[i].distance <= raw[i + 1].distance

GateIdle ==
    /\ gIn = [query |-> <<>>, raw |-> <<>>]
    /\ gOut = [done |-> FALSE]

InitGate ==
    /\ \E q \in GateQueries, n \in 0..MaxDocs :
          \E raw \in [1..n -> GateDocs] :
             /\ Sorted(raw)
             /\ gIn = [query |-> q, raw |-> raw]
    /\ gOut = [done |-> FALSE]

\* should_use_dynamic_search(query_text)
Gate ==
    /\ ~gOut.done
    /\ gOut' = [done |-> TRUE,
                res |-> ShouldUseDynamicSearchOn(gIn.query, gIn.raw)]
    /\ UNCHANGED <<gIn, crawlVars, filterVars, stepVars, sideVars>>

(***************************************************************************)
(* Crawl managers step by step: instances of IncrementalScraper that share *)
(* pages_info.json and the Knowledge Store, each of which may stop at any  *)
(* point between two accesses of the file                                  *)
(***************************************************************************)

\* Bounds: runs started and crashes.
MaxRuns == 3
MaxCrashes == 1

\* The processes that run a crawl manager.
Managers == {"a", "b"}

\* A process that runs no crawl manager.
IdleManager ==
    [pc |-> "idle", info |-> EmptyPagesInfo, start_url |-> "pravo.by/pi",
     max_pages |-> 1, urls |-> {}, new |-> {}, changed |-> {}, deleted |-> {},
     written |-> {}, upserted |-> {}, added |-> 0, lost |-> {},
     overlapped |-> FALSE, missed |-> {}]

ManagersIdle ==
    /\ mgr = [m \in Managers |-> IdleManager]
    /\ runs = [started |-> 0, crashed |-> 0]

\* A crawl manager is between its construction and its return.
Running(m) == mgr[m].pc \notin {"idle", "done"}

\* IncrementalScraper.__init__: the new instance loads pages_info from the
\* file.  A process keeps the memory of what its crashed run had upserted.
StartRun(m, start_url, max_pages) ==
    /\ ~Running(m)
    /\ runs.started < MaxRuns
    /\ runs' = [runs EXCEPT !.started = @ + 1]
    /\ mgr' = [o \in Managers |->
                 IF o = m
                 THEN [IdleManager EXCEPT
                         !.pc = "loaded", !.info = disk,
                         !.start_url = start_url, !.max_pages = max_pages,
                         !.lost = mgr[m].lost, !.missed = mgr[m].missed,
                         !.overlapped = \E q \in Managers \ {m} : Running(q)]
                 ELSE [mgr[o] EXCEPT !.overlapped = @ \/ Running(o)]]
    /\ UNCHANGED <<crawlVars, filterVars, gateVars, sideVars>>

\* The state after _discover_site_urls has returned d.
Discovering(m, d) ==
    /\ mgr' = [mgr EXCEPT ![m].pc = "discovered", ![m].info = d.info,
                          ![m].urls = d.urls]
    /\ disk' = IF d.cached THEN disk ELSE d.info

\* incremental_scrape, line 280: _discover_site_urls, which saves the
\* pages_info of the instance when it has scanned the site.
DiscoverStep(m) ==
    /\ mgr[m].pc = "loaded"
    /\ Discovering(m, DiscoverSiteUrls(mgr[m].info, mgr[m].start_url,
                                       mgr[m].max_pages, site, now))
    /\ UNCHANGED <<now, stamp, edits, site, pages_info, kb, tracker, last, runs>>
    /\ UNCHANGED <<filterVars, gateVars, sideVars>>

\* The state after check_for_changes has returned c: the run ends here
\* when there is no new and no changed page.
Checking(m, c) ==
    /\ mgr' = [mgr EXCEPT ![m].pc = IF c.new \cup c.changed = {} THEN "done"
                                    ELSE "checked",
                          ![m].info = c.info, ![m].new = c.new,
                          ![m].changed = c.changed, ![m].deleted = c.deleted]
    /\ disk' = c.info

\* incremental_scrape, line 283: check_for_changes, which saves the
\* pages_info of the instance.
CheckStep(m) ==
    /\ mgr[m].pc = "discovered"
    /\ Checking(m, CheckForChanges(mgr[m].info, mgr[m].urls, site, now))
    /\ UNCHANGED <<now, stamp, edits, site, pages_info, kb, tracker, last, runs>>
    /\ UNCHANGED <<filterVars, gateVars, sideVars>>

\* The changed pages that scrape_single_page could not fetch, each with the
\* fingerprint that check_for_changes has stored for it and the hour.
FailedFetches(m) ==
    {[url |-> u, content_hash |-> mgr[m].info.pages[u].content_hash, at |-> now] :
       u \in {v \in mgr[m].changed : ~FetchOk(site, v)}}

\* The state after the harvest loop, the deletion loop and
\* add_to_knowledge_base.  The process remembers the failed fetches of
\* changed pages until the page is harvested.
Harvesting(m, scraped_data, info, add) ==
    /\ mgr' = [mgr EXCEPT ![m].pc = "added", ![m].info = info,
                          ![m].missed =
                              {e \in mgr[m].missed :
                                 \A p \in scraped_data : p.url # e.url}
                              \cup FailedFetches(m),
                          ![m].written = {p.url : p \in scraped_data},
                          ![m].upserted = {d.url : d \in add.coll \ kb},
                          ![m].added = add.added]
    /\ kb' = add.coll

\* The state after the harvest of the pages scraped_data.
Harvested(m, scraped_data) ==
    Harvesting(m, scraped_data,
               Records(mgr[m].info, mgr[m].deleted, scraped_data, now),
               AddToKnowledgeBase(kb, scraped_data, stamp, TRUE))

\* incremental_scrape, lines 302-328: the pages are scraped, their records
\* written in memory and their chunks upserted.
HarvestStep(m) ==
    /\ mgr[m].pc = "checked"
    /\ stamp' = stamp + 1
    /\ Harvested(m, ScrapePages(site, mgr[m].new \cup mgr[m].changed))
    /\ UNCHANGED <<now, edits, site, pages_info, disk, tracker, last, runs>>
    /\ UNCHANGED <<filterVars, gateVars, sideVars>>

\* incremental_scrape, lines 331-338: the tracker is updated and the
\* pages_info of the instance saved.
SaveStep(m) ==
    /\ mgr[m].pc = "added"
    /\ tracker' = UpdateScrapingInfo(tracker, mgr[m].start_url,
                                     Cardinality(mgr[m].written), mgr[m].added)
    /\ disk' = mgr[m].info
    /\ mgr' = [mgr EXCEPT ![m].pc = "done"]
    /\ UNCHANGED <<now, stamp, edits, site, pages_info, kb, last, runs>>
    /\ UNCHANGED <<filterVars, gateVars, sideVars>>

\* The process dies: the instance and its pages_info are gone, the file
\* and the Knowledge Store stay as they are.
Crash(m) ==
    /\ Running(m)
    /\ runs.crashed < MaxCrashes
    /\ runs' = [runs EXCEPT !.crashed = @ + 1]
    /\ mgr' = [mgr EXCEPT ![m] =
                 [IdleManager EXCEPT !.lost = mgr[m].lost \cup mgr[m].upserted]]
    /\ UNCHANGED <<crawlVars, filterVars, gateVars, sideVars>>

(***************************************************************************)
(* The site and the clock between the steps of a run                       *)
(***************************************************************************)

\* Bound of the clock: re-check intervals that pass.
MaxTicks == 2

\* The pages that fail and change between the steps.
RetryUrls == {"pravo.by/pi"}

\* requests to the page start to fail, or succeed again.
Outage(u) ==
    /\ site' = [site EXCEPT ![u].up = ~site[u].up]
    /\ UNCHANGED <<now, stamp, edits, pages_info, disk, kb, tracker, last>>
    /\ UNCHANGED <<filterVars, gateVars, stepVars, sideVars>>

\* The site's owner replaces the text of the page.
Rewrite(u, text) ==
    /\ text # site[u].text
    /\ site' = [site EXCEPT ![u].text = text]
    /\ UNCHANGED <<now, stamp, edits, pages_info, disk, kb, tracker, last>>
    /\ UNCHANGED <<filterVars, gateVars, stepVars, sideVars>>

\* A re-check interval passes.
Tick ==
    /\ now < MaxTicks * CheckIntervalHours
    /\ now' = now + CheckIntervalHours
    /\ UNCHANGED <<stamp, edits, site, pages_info, disk, kb, tracker, last>>
    /\ UNCHANGED <<filterVars, gateVars, stepVars, sideVars>>

(***************************************************************************)
(* The admin panel's background commands: the thread that starts a command *)
(* and the worker thread that runs it share running_processes without a    *)
(* lock                                                                    *)
(***************************************************************************)

\* The process ids of the commands started.
ProcessIds == {"stats_1", "stats_2", "scrape_1"}

\* How subprocess.run ends: it returns, it raises TimeoutExpired, it raises
\* another exception.
Outcomes == {"completed", "timeout", "error"}

AdminIdle ==
    /\ running_processes = [p \in {} |-> None]
    /\ threads = [p \in ProcessIds |-> [starter |-> "idle", worker |-> "none"]]

\* {**running_processes.get(process_id, {}), 'status': status}: the keys
\* of the record that is there, if any, with the new status.
OriginalData(p, status) ==
    [status |-> status,
     started_at |-> p \in DOMAIN running_processes /\ running_processes[p].started_at]

\* running_processes[process_id] = entry
Put(p, entry) ==
    [q \in DOMAIN running_processes \cup {p} |->
        IF q = p THEN entry ELSE running_processes[q]]

\* _run_background_process up to thread.start(): the worker thread exists,
\* the record of the process is not written yet.
StartThread(p) ==
    /\ threads[p].starter = "idle"
    /\ threads' = [threads EXCEPT ![p] = [starter |-> "started", worker |-> "run"]]
    /\ UNCHANGED <<running_processes, crawlVars, filterVars, gateVars, stepVars, callVars, splitVars>>

\* _run_background_process, lines 275-285: the starting thread writes the
\* record with status running and returns.
WriteRunning(p) ==
    /\ threads[p].starter = "started"
    /\ running_processes' = Put(p, [status |-> "running", started_at |-> TRUE])
    /\ threads' = [threads EXCEPT ![p].starter = "returned"]
    /\ UNCHANGED <<crawlVars, filterVars, gateVars, stepVars, callVars, splitVars>>

\* run_process, lines 224-268: subprocess.run ends and the worker writes
\* the record with the status of the outcome over the original data.
WorkerFinish(p, outcome) ==
    /\ threads[p].worker = "run"
    /\ running_processes' = Put(p, OriginalData(p, outcome))
    /\ threads' = [threads EXCEPT ![p].worker =
                      IF outcome = "completed" THEN "emit" ELSE "end"]
    /\ UNCHANGED <<crawlVars, filterVars, gateVars, stepVars, callVars, splitVars>>

\* run_process, lines 246-251 and 261-268: socketio.emit; when it raises,
\* the handler of Exception writes the status error.
Emit(p, ok) ==
    /\ threads[p].worker = "emit"
    /\ running_processes' =
          IF ok THEN running_processes
          ELSE Put(p, OriginalData(p, "error"))
    /\ threads' = [threads EXCEPT ![p].worker = "end"]
    /\ UNCHANGED <<crawlVars, filterVars, gateVars, stepVars, callVars, splitVars>>

(***************************************************************************)
(* TextProcessor.split_text on its own.  Here a text is a sequence of runs *)
(* [c, n]: n times the character c, which is a letter ("a"), a full stop   *)
(* ("dot"), a blank ("sp") or a line break ("nl").  Paragraphs are parted  *)
(* by exactly two line breaks; the texts hold no digit and no bracket, so  *)
(* that, of the separators of split_text_into_structure, only the empty    *)
(* line matches.                                                           *)
(***************************************************************************)

\* chunk_overlap of TextProcessor, max_chunk_size and the least length of a
\* block in split_text_into_structure, the look-back of the split loops.
ChunkOverlap == 200
MaxChunkSize == 1000
MinBlockLength == 10
LookBack == 100

\* Bound of the number of paragraphs of a text.
MaxParagraphs == 3

\* chunk_size of the TextProcessor: the default and a smaller one.
ChunkSizes == {1000, 500}

BlankChars == {"sp", "nl"}

RECURSIVE RLen(_)
\* len(text)
RLen(t) == IF t = <<>> THEN 0 ELSE Head(t).n + RLen(Tail(t))

RECURSIVE CharAt(_, _)
\* text[i], 0 <= i < len(text)
CharAt(t, i) == IF i < Head(t).n THEN Head(t).c ELSE CharAt(Tail(t), i - Head(t).n)

RECURSIVE DropChars(_, _)
\* text[k:]
DropChars(t, k) ==
    IF k <= 0 \/ t = <<>> THEN t
    ELSE IF k >= Head(t).n THEN DropChars(Tail(t), k - Head(t).n)
    ELSE <<[c |-> Head(t).c, n |-> Head(t).n - k]>> \o Tail(t)

RECURSIVE TakeChars(_, _)
\* text[:k]
TakeChars(t, k) ==
    IF k <= 0 \/ t = <<>> THEN <<>>
    ELSE IF k >= Head(t).n THEN <<Head(t)>> \o TakeChars(Tail(t), k - Head(t).n)
    ELSE <<[c |-> Head(t).c, n |-> k]>>

\* text[start:end]
Slice(t, start, end) == TakeChars(DropChars(t, start), end - start)

RECURSIVE LStripRuns(_)
LStripRuns(t) ==
    IF t # <<>> /\ Head(t).c \in BlankChars THEN LStripRuns(Tail(t)) ELSE t

RECURSIVE RStripRuns(_)
RStripRuns(t) ==
    IF t # <<>> /\ t[Len(t)].c \in BlankChars
    THEN RStripRuns(SubSeq(t, 1, Len(t) - 1)) ELSE t

\* text.strip()
StripRuns(t) == RStripRuns(LStripRuns(t))

RECURSIVE FixedSlices(_, _)
\* recursive_semantic_splitter with no separator left: slices of
\* max_chunk_size characters, stripped, the empty ones left out.
FixedSlices(t, i) ==
    IF i >= RLen(t) THEN <<>>
    ELSE LET chunk == StripRuns(Slice(t, i, i + MaxChunkSize))
         IN  (IF chunk # <<>> THEN <<chunk>> ELSE <<>>)
             \o FixedSlices(t, i + MaxChunkSize)

RECURSIVE SplitParagraphs(_, _)
\* re.split('(?=\n\s*\n)', text): the pieces of the text, each from an
\* empty line on; acc is the piece being collected.
SplitParagraphs(t, acc) ==
    IF t = <<>> THEN <<acc>>
    ELSE IF Head(t).c = "nl" /\ Head(t).n >= 2
    THEN <<acc>> \o SplitParagraphs(Tail(t), <<Head(t)>>)
    ELSE SplitParagraphs(Tail(t), Append(acc, Head(t)))

RECURSIVE SplitPieces(_)
\* The loop of recursive_semantic_splitter over the pieces: a piece longer
\* than max_chunk_size is split further, which for these texts ends in the
\* fixed slices.
SplitPieces(pieces) ==
    IF pieces = <<>> THEN <<>>
    ELSE LET chunk == Head(pieces)
         IN  (IF StripRuns(chunk) = <<>> THEN <<>>
              ELSE IF RLen(chunk) > MaxChunkSize THEN FixedSlices(chunk, 0)
              ELSE <<StripRuns(chunk)>>)
             \o SplitPieces(Tail(pieces))

\* recursive_semantic_splitter(text, separators, max_chunk_size)
RecursiveSemanticSplitter(t) ==
    IF RLen(t) <= MaxChunkSize
    THEN (IF StripRuns(t) # <<>> THEN <<StripRuns(t)>> ELSE <<>>)
    ELSE SplitPieces(SplitParagraphs(t, <<>>))

\* split_text_into_structure: the blocks longer than ten characters
SplitTextIntoStructure(t) ==
    IF StripRuns(t) = <<>> THEN <<>>
    ELSE SelectSeq(RecursiveSemanticSplitter(t),
                   LAMBDA block : RLen(StripRuns(block)) > MinBlockLength)

\* The end of the chunk that starts at start: start + chunk_size, or, when
\* that is before the end of the text, the nearest character of marks at most
\* a hundred characters back, moved by shift.
ChunkEnd(t, start, chunk_size, marks, shift) ==
    LET end == start + chunk_size
        low == IF start + chunk_size - LookBack > start
               THEN start + chunk_size - LookBack ELSE start
        found == {i \in (low + 1)..end : CharAt(t, i) \in marks}
    IN  IF end < RLen(t) /\ found # {}
        THEN (CHOOSE i \in found : \A j \in found : j <= i) + shift
        ELSE end

RECURSIVE SplitLoop(_, _, _, _, _)
\* The while loop of _split_large_block and of _simple_split.
SplitLoop(t, start, chunk_size, marks, shift) ==
    IF ~(start < RLen(t)) THEN <<>>
    ELSE LET end == ChunkEnd(t, start, chunk_size, marks, shift)
             chunk == StripRuns(Slice(t, start, end))
             next == IF end - ChunkOverlap < 0 THEN end ELSE end - ChunkOverlap
         IN  (IF chunk # <<>> THEN <<chunk>> ELSE <<>>)
             \o SplitLoop(t, next, chunk_size, marks, shift)

\* TextProcessor._split_large_block: splits after a line break or the end
\* of a sentence
SplitLargeBlock(block, chunk_size) ==
    SplitLoop(block, 0, chunk_size, {"nl", "dot"}, 1)

\* TextProcessor._simple_split: splits at a blank or a line break
SimpleSplit(t, chunk_size) == SplitLoop(t, 0, chunk_size, BlankChars, 0)

\* current_chunk + "\n\n" + block
Joined(current_chunk, block) == current_chunk \o <<[c |-> "nl", n |-> 2]>> \o block

RECURSIVE MergeBlocks(_, _, _, _)
\* The loop of split_text over the structured blocks, with the chunks and
\* current_chunk so far, and the last chunk added after it.
MergeBlocks(blocks, chunks, current_chunk, chunk_size) ==
    IF blocks = <<>>
    THEN (IF current_chunk # <<>> THEN Append(chunks, StripRuns(current_chunk))
          ELSE chunks)
    ELSE LET block == Head(blocks)
         IN  IF RLen(current_chunk) + RLen(block) + 1 <= chunk_size
             THEN MergeBlocks(Tail(blocks), chunks,
                              IF current_chunk # <<>> THEN Joined(current_chunk, block)
                              ELSE block,
                              chunk_size)
             ELSE LET saved == IF current_chunk # <<>>
                               THEN Append(chunks, StripRuns(current_chunk))
                               ELSE chunks
                  IN  IF RLen(block) <= chunk_size
                      THEN MergeBlocks(Tail(blocks), saved, block, chunk_size)
                      ELSE MergeBlocks(Tail(blocks),
                                       saved \o SplitLargeBlock(block, chunk_size),
                                       <<>>, chunk_size)

\* TextProcessor.split_text of a processor with the given chunk_size
SplitTextRuns(t, chunk_size) ==
    IF StripRuns(t) = <<>> THEN <<>>
    ELSE LET structured_blocks == SplitTextIntoStructure(t)
         IN  IF Len(structured_blocks) > 1
             THEN MergeBlocks(structured_blocks, <<>>, <<>>, chunk_size)
             ELSE SimpleSplit(t, chunk_size)

\* The paragraphs that a text may hold: letters only, two sentences, two
\* long words.
Paragraphs ==
    {<<[c |-> "a", n |-> 11]>>, <<[c |-> "a", n |-> 499]>>, <<[c |-> "a", n |-> 500]>>,
     <<[c |-> "a", n |-> 500], [c |-> "dot", n |-> 1], [c |-> "a", n |-> 300]>>,
     <<[c |-> "a", n |-> 495], [c |-> "sp", n |-> 1], [c |-> "a", n |-> 300]>>}

RECURSIVE JoinParagraphs(_)
\* The paragraphs with an empty line between them.
JoinParagraphs(ps) ==
    IF Len(ps) = 1 THEN ps[1]
    ELSE ps[1] \o <<[c |-> "nl", n |-> 2]>> \o JoinParagraphs(Tail(ps))

SplitIdle ==
    /\ sIn = [text |-> <<>>, chunk_size |-> 1000]
    /\ sOut = [done |-> FALSE]

InitSplit ==
    /\ \E n \in 1..MaxParagraphs, chunk_size \in ChunkSizes :
          \E ps \in [1..n -> Paragraphs] :
             sIn = [text |-> JoinParagraphs(ps), chunk_size |-> chunk_size]
    /\ sOut = [done |-> FALSE]

\* TextProcessor(chunk_size).split_text(text)
Split ==
    /\ ~sOut.done
    /\ sOut' = [done |-> TRUE, chunks |-> SplitTextRuns(sIn.text, sIn.chunk_size)]
    /\ UNCHANGED <<sIn, crawlVars, filterVars, gateVars, stepVars, callVars, adminVars>>

(***************************************************************************)
(* The Knowledge Store on its own: a sequence of add_document calls        *)
(***************************************************************************)

\* Bound of the number of add_document calls.
MaxAdds == 3

\* Ids, texts and source URLs of the documents handed to add_document.
StoreIds == {<<"dynamic", t, h, 0>> : t \in {0, 1}, h \in {1, 2}}
StoreTexts == {TLegal, TLegal2, <<"sp">>, <<>>}
StoreUrls == {"pravo.by/pi", "pravo.by/doc"}

\* The state after add_document has returned r.
DocumentAdded(doc, storeOk, r) ==
    /\ kb' = r.coll
    /\ last' = [op |-> "add_document", doc |-> doc, storeOk |-> storeOk,
                existed |-> \E d \in kb : d.id = doc.id,
                before |-> kb, ok |-> r.ok]

\* knowledge_base.add_document(doc_id, document_text, metadata)
AddDoc(doc_id, document_text, url, storeOk) ==
    /\ stamp < MaxAdds
    /\ stamp' = stamp + 1
    /\ DocumentAdded([id |-> doc_id, text |-> document_text,
                      source |-> "web_scraper", url |-> url,
                      title |-> TitleText, legal_score |-> 0],
                     storeOk,
                     AddDocument(kb,
                                 [id |-> doc_id, text |-> document_text,
                                  source |-> "web_scraper", url |-> url,
                                  title |-> TitleText, legal_score |-> 0],
                                 storeOk))
    /\ UNCHANGED <<now, edits, site, pages_info, disk, tracker>>
    /\ UNCHANGED <<filterVars, gateVars, stepVars, sideVars>>

(***************************************************************************)
(* Specifications                                                          *)
(***************************************************************************)

SideIdle == CallsIdle /\ AdminIdle /\ SplitIdle

Init == InitCrawl /\ FilterIdle /\ GateIdle /\ ManagersIdle /\ SideIdle

Next ==
    \/ \E u \in URLs, text \in EditTexts : EditText(u, text)
    \/ \E u \in URLs : EditUp(u)
    \/ \E u \in URLs : EditWhitespace(u)
    \/ \E wait \in Waits, start_url \in StartUrls, max_pages \in MaxPagesArgs :
          IncrementalScrape(wait, start_url, max_pages)
    \/ \E start_url \in StartUrls, max_pages \in MaxPagesArgs :
          ScrapeAndAdd(start_url, max_pages)
    \/ \E q \in Questions, hits \in PortalHits, fault \in Faults :
          SearchAndAdd(q, hits, fault)
    \/ \E q \in Questions, hits \in PortalHits, fault \in QuestionFaults,
          accepted \in BOOLEAN :
          HandleQuestion(q, hits, fault, accepted)

Spec == Init /\ [][Next]_vars

FilterStart == InitCrawl /\ InitFilter /\ GateIdle /\ ManagersIdle /\ SideIdle

SpecFilter == FilterStart /\ [][Filter]_vars

GateStart == InitCrawl /\ FilterIdle /\ InitGate /\ ManagersIdle /\ SideIdle

SpecGate == GateStart /\ [][Gate]_vars

NextSteps ==
    \/ \E m \in Managers, start_url \in StartUrls, max_pages \in MaxPagesArgs :
          StartRun(m, start_url, max_pages)
    \/ \E m \in Managers : DiscoverStep(m)
    \/ \E m \in Managers : CheckStep(m)
    \/ \E m \in Managers : HarvestStep(m)
    \/ \E m \in Managers : SaveStep(m)
    \/ \E m \in Managers : Crash(m)

SpecSteps == Init /\ [][NextSteps]_vars

NextCalls ==
    \/ \E page_data \in CallPages : IsLegalCall(page_data)
    \/ \E n \in 1..MaxBatch : \E scraped_data \in [1..n -> CallPages] :
          FilterBatch(scraped_data)

SpecCalls == Init /\ [][NextCalls]_vars

\* One crawl manager after the other, on a site that changes and fails
\* between the steps of a run.
NextRetry ==
    \/ \E start_url \in StartUrls, max_pages \in MaxPagesArgs :
          StartRun("a", start_url, max_pages)
    \/ DiscoverStep("a")
    \/ CheckStep("a")
    \/ HarvestStep("a")
    \/ SaveStep("a")
    \/ \E u \in RetryUrls : Outage(u)
    \/ \E u \in RetryUrls, text \in EditTexts : Rewrite(u, text)
    \/ Tick

SpecRetry == Init /\ [][NextRetry]_vars

NextAdmin ==
    \/ \E p \in ProcessIds : StartThread(p)
    \/ \E p \in ProcessIds : WriteRunning(p)
    \/ \E p \in ProcessIds, outcome \in Outcomes : WorkerFinish(p, outcome)
    \/ \E p \in ProcessIds, ok \in BOOLEAN : Emit(p, ok)

\* Both threads of a command are scheduled again and again, and
\* subprocess.run ends within its timeout.
FairAdmin ==
    \A p \in ProcessIds :
        /\ WF_vars(WriteRunning(p))
        /\ WF_vars(\E outcome \in Outcomes : WorkerFinish(p, outcome))
        /\ WF_vars(\E ok \in BOOLEAN : Emit(p, ok))

SpecAdmin == Init /\ [][NextAdmin]_vars /\ FairAdmin

SplitStart ==
    InitCrawl /\ FilterIdle /\ GateIdle /\ ManagersIdle /\ CallsIdle /\ AdminIdle
    /\ InitSplit

SpecSplit == SplitStart /\ [][Split]_vars

NextStore ==
    \E doc_id \in StoreIds, document_text \in StoreTexts, url \in StoreUrls,
       storeOk \in BOOLEAN :
       AddDoc(doc_id, document_text, url, storeOk)

SpecStore == Init /\ [][NextStore]_vars

(***************************************************************************)
(* Properties of the Incremental Crawl Manager                             *)
(***************************************************************************)

\* The last operation was a run of incremental_scrape.
Ran == last.op = "incremental_scrape"

\* C1: a run of incremental_scrape that directly follows a run with the
\* same arguments, with no time and no change of the site in between,
\* reports new_pages = 0 and changed_pages = 0.
C1_SecondRunReportsNothing ==
    (Ran /\ last.rerun /\ last.wait = 0)
        => (last.result.new_pages = 0 /\ last.result.changed_pages = 0)

\* C2: a run of incremental_scrape 24 hours after a run with the same
\* arguments, on a site that did not change in between, fetches the
\* fingerprint of every known URL once, classifies none as changed and
\* fetches the full content of none of them.
C2_UnchangedSiteOnlyFingerprinted ==
    (Ran /\ last.rerun /\ last.wait = CheckIntervalHours)
        => /\ last.fetched = last.known \cap last.urls
           /\ last.changed = {}
           /\ last.attempted \cap last.known = {}

\* C3: when incremental_scrape returns, every URL that had a PageRecord and
\* is absent from the discovered URLs was classified deleted and has no
\* PageRecord any more, neither in memory nor in the file.
C3_AbsentUrlForgotten ==
    Ran => \A u \in last.known \ last.urls :
              /\ u \in last.deleted
              /\ u \notin DOMAIN pages_info.pages
              /\ u \notin DOMAIN disk.pages

\* C4: check_for_changes classifies as deleted exactly the URLs that have a
\* PageRecord and are absent from urls; no member of urls is classified
\* deleted, whatever its fetch gives.
C4_DeletedIffAbsent ==
    Ran => last.deleted = last.known \ last.urls

(***************************************************************************)
(* Properties of the Retrieval Quality Gate                                *)
(***************************************************************************)

\* The positions of the store's answer that search_relevant_docs keeps:
\* none for a blank query, else those nearer than the relevance cut-off.
Usable ==
    IF \A i \in DOMAIN gIn.query : gIn.query[i] \in Whitespace THEN {}
    ELSE {i \in DOMAIN gIn.raw : gIn.raw[i].distance < RelevanceCutoff}

\* The position of the best-matching chunk of a non-empty result.
Best == CHOOSE i \in Usable :
            \A j \in Usable : /\ gIn.raw[i].distance <= gIn.raw[j].distance
                               /\ (gIn.raw[i].distance = gIn.raw[j].distance => i <= j)

\* The query has a procedure-seeking phrasing / asks about the bot itself.
ProceduralQuery == Range(gIn.query) \cap ProceduralKeywords # {}
BotQuery == Range(gIn.query) \cap BotKeywords # {}

\* The verdict that the general threshold gives.
GeneralVerdict == Usable = {} \/ gIn.raw[Best].distance > GeneralThreshold

\* The verdict that the procedural rule gives for a non-empty result.
ProceduralVerdict ==
    \/ gIn.raw[Best].distance > ProceduralThreshold
    \/ Range(gIn.raw[Best].content) \cap ProceduralContentKeywords = {}

\* C5 as stated: for a query without procedure-seeking phrasing,
\* needs_fallback is true iff the result is empty or its best distance
\* exceeds 0.6.
C5_GeneralThresholdDecides ==
    (gOut.done /\ ~ProceduralQuery) => (gOut.res.needs_fallback <=> GeneralVerdict)

\* C5 amended: for a query without procedure-seeking phrasing and without
\* a bot-related keyword, needs_fallback is true iff the result is empty or
\* its best distance exceeds 0.6.
C5_GeneralThresholdDecidesUnlessBot ==
    (gOut.done /\ ~ProceduralQuery /\ ~BotQuery)
        => (gOut.res.needs_fallback <=> GeneralVerdict)

\* A general query whose best chunk lies between the two thresholds: the
\* gate is content with it.
C5_Witness ==
    /\ gOut.done /\ ~ProceduralQuery /\ ~BotQuery /\ Usable # {}
    /\ gIn.raw[Best].distance > ProceduralThreshold
    /\ gIn.raw[Best].distance <= GeneralThreshold
    /\ Len(gIn.raw) > 1
    /\ ~gOut.res.needs_fallback

\* C6 as stated: for a query with procedure-seeking phrasing and a
\* non-empty result, needs_fallback is true iff the best distance exceeds
\* 0.35 or the best-matching chunk holds no procedural marker.
C6_ProceduralRuleDecides ==
    (gOut.done /\ ProceduralQuery /\ Usable # {})
        => (gOut.res.needs_fallback <=> ProceduralVerdict)

\* C6 amended: the same for a procedural query without a bot-related
\* keyword.
C6_ProceduralRuleDecidesUnlessBot ==
    (gOut.done /\ ProceduralQuery /\ ~BotQuery /\ Usable # {})
        => (gOut.res.needs_fallback <=> ProceduralVerdict)

\* A procedural query answered by a chunk that the general threshold would
\* accept and that holds a procedural marker, yet is too far.
C6_Witness ==
    /\ gOut.done /\ ProceduralQuery /\ ~BotQuery /\ Usable # {}
    /\ gIn.raw[Best].distance > ProceduralThreshold
    /\ gIn.raw[Best].distance <= GeneralThreshold
    /\ Range(gIn.raw[Best].content) \cap ProceduralContentKeywords # {}
    /\ gOut.res.needs_fallback

(***************************************************************************)
(* Properties of the Relevance Gate                                        *)
(***************************************************************************)

\* Number of matches of disqualifying patterns in the title and the text.
Matches == Count(Lower(fIn.title \o <<"sp">> \o fIn.text), NonLegalTokens)

\* C7 as stated: a content with a match of any disqualifying pattern is
\* not admissible.
C7_AnyMatchExcludes ==
    (fOut.done /\ Matches >= 1) => ~fOut.res.is_legal

\* C7 amended: a content with more than five matches of disqualifying
\* patterns is not admissible, whatever legal evidence it holds.
C7_SixMatchesExclude ==
    (fOut.done /\ Matches > 5) => ~fOut.res.is_legal

\* A long text of the portal with every legal word and six disqualifying
\* matches, rejected.
C7_Witness ==
    /\ fOut.done /\ Matches = 6
    /\ FilterWords \subseteq Range(fIn.text)
    /\ TextLen(fIn.text) > MinDynamicLength
    /\ UrlHasPravoBy(fIn.url)
    /\ ~fOut.res.is_legal

(***************************************************************************)
(* Properties of ingestion and of the Fallback Search Orchestrator         *)
(***************************************************************************)

\* The chunks of the store that were harvested from the web.
WebChunks == {d \in kb : d.source = "web_scraper"}

\* C8: every web-harvested chunk of the Knowledge Store comes from a page
\* that the Relevance Gate judges admissible.
C8_OnlyAdmissiblePagesStored ==
    \A d \in WebChunks : IsLegalContent(d.text, d.title, d.url).is_legal

\* The store holds a web chunk, and the last operation fetched a page of
\* which the store holds nothing.
C8_Witness ==
    /\ WebChunks # {}
    /\ last.op \in {"scrape_and_add", "incremental_scrape", "search_and_add"}
    /\ \E u \in last.scraped : \A d \in kb : d.url # u

\* The last operation was a fallback search in which nothing raised.
Searched == last.op = "search_and_add" /\ last.fault = "none"

\* Some chunk of the store lies within the relevance cut-off of the last
\* question.
SomeChunkNear ==
    \E d \in kb : EmbedDistance(last.question, d.text) < RelevanceCutoff

C10_ExceptionsBecomeFailure ==
    (last.op = "search_and_add" /\ last.fault # "none")
        => /\ last.ret.answer = NoValue
           /\ ~last.ret.success
           /\ ~last.ret.raised

\* The answer step raised after chunks had been added, and the except
\* clause took it.
C10_Witness ==
    /\ last.op = "search_and_add" /\ last.fault = "answer"
    /\ last.added >= 1 /\ last.requery > 0
    /\ last.ret.caught /\ ~last.ret.success

\* The last operation was a fallback search.
FallbackRan == last.op = "search_and_add"

\* C11: search_and_add_to_knowledge_base returns success only when, within
\* the call, an admissible page gave a newly upserted chunk and the re-query
\* was non-empty; when no page was fetched, none was admissible, no chunk
\* was added or the re-query was empty it returns (None, False); and the
\* answer is non-null exactly when success is true.
C11_SuccessOnlyAfterAddAndRequery ==
    FallbackRan
        => /\ last.ret.success
                => /\ last.admitted # {}
                   /\ last.added >= 1
                   /\ \E d \in last.grown : d.url \in last.admitted
                   /\ last.requery > 0
           /\ (last.scraped = {} \/ last.admitted = {} \/ last.added = 0
                  \/ last.requery = 0)
                => (last.ret.answer = NoValue /\ ~last.ret.success)
           /\ (last.ret.answer # NoValue) <=> last.ret.success
           /\ ~last.ret.raised

\* A fallback search on a store that already held chunks adds a chunk of
\* another page and succeeds.
C11_Witness ==
    /\ FallbackRan /\ ~last.empty
    /\ last.ret.success /\ last.ret.answer # NoValue
    /\ \E d \in last.grown : \A e \in kb \ last.grown : e.url # d.url

(***************************************************************************)
(* Properties of the answering path                                        *)
(***************************************************************************)

\* The last operation was an accepted question whose fallback search
\* returned success = false or raised.
FallbackFailed ==
    /\ last.op = "handle_question" /\ last.accepted /\ last.searched
    /\ (~last.ret.success \/ last.ret.raised)

\* C12: when the fallback search of an accepted question fails or raises,
\* handle_question ends with exactly one reply: the answer generated from
\* the documents retrieved before the fallback when there are any, and
\* otherwise a message that no information was found.
C12_FailedSearchStillAnswered ==
    FallbackFailed
        => /\ Len(last.chat) = 1
           /\ IF last.before # <<>>
              THEN last.chat[1] = GetAnswer(last.question, last.before)
              ELSE last.chat[1].kind \in {"no_info", "search_error"}

\* The creation of the searcher raised for a question to which the store
\* had a distant document: the user got the answer from that document.
C12_Witness ==
    /\ FallbackFailed /\ last.ret.raised
    /\ last.before # <<>>
    /\ last.chat = <<GetAnswer(last.question, last.before)>>

(***************************************************************************)
(* Properties of discovery and of the change check                         *)
(***************************************************************************)

\* The domain of the last run's start_url.
RunDomain == Domain(last.start_url)

\* The file held a site map of that domain, scanned less than seven days
\* before the run.
FreshMap ==
    /\ RunDomain \in DOMAIN last.loaded.site_maps
    /\ now - last.loaded.site_maps[RunDomain].last_scan < SiteMapCacheHours

\* C13: when a site map of the start_url's domain exists and its last_scan
\* is less than 7 days old, discovery fetches no page, returns the stored
\* URLs and leaves the site map and the stored pages_info as they were.
C13_FreshMapReturnedUntouched ==
    (Ran /\ FreshMap)
        => /\ last.discovered.fetched = <<>>
           /\ last.urls = last.loaded.site_maps[RunDomain].urls
           /\ last.discovered.info = last.loaded
           /\ last.cached
           /\ pages_info.site_maps = last.loaded.site_maps
           /\ disk.site_maps = last.loaded.site_maps

\* A run one day after a scan that found two pages, asked for a single
\* page: discovery returns the two stored URLs without a fetch.
C13_Witness ==
    /\ Ran /\ FreshMap /\ last.wait = CheckIntervalHours
    /\ last.max_pages = 1 /\ Cardinality(last.urls) = 2
    /\ last.discovered.fetched = <<>>

\* The sequence holds no element twice.
NoRepeats(seq) == \A i, j \in DOMAIN seq : seq[i] = seq[j] => i = j

\* C14: a traversal fetches no URL twice and collects at most max_pages
\* URLs, each of which it fetched, also on a link graph with cycles.
C14_TraversalBounded ==
    (Ran /\ ~last.cached)
        => /\ NoRepeats(last.discovered.fetched)
           /\ Cardinality(last.urls) <= last.max_pages
           /\ last.urls \subseteq Range(last.discovered.fetched)

\* A traversal of three pages one of which links back to the start page.
C14_Witness ==
    /\ Ran /\ ~last.cached
    /\ last.max_pages = 3 /\ Cardinality(last.urls) = 3
    /\ \E u \in last.urls \ {last.start_url} : last.start_url \in site[u].links

\* The URLs of the last run that had a PageRecord checked less than 24
\* hours before.
RecentlyChecked ==
    {u \in last.urls \cap DOMAIN last.loaded.pages :
        now - last.loaded.pages[u].last_check < CheckIntervalHours}

\* C15: check_for_changes does not fetch a URL whose PageRecord was checked
\* less than 24 hours ago, classifies it neither new nor changed nor
\* deleted and leaves its PageRecord as it was.
C15_RecentRecordSkipped ==
    Ran => \A u \in RecentlyChecked :
              /\ u \notin last.fetched
              /\ u \notin last.new \cup last.changed \cup last.deleted
              /\ u \in DOMAIN last.checked.pages
              /\ last.checked.pages[u] = last.loaded.pages[u]

\* A run right after a run: two records are recent and skipped while a
\* third URL is classified new.
C15_Witness ==
    /\ Ran /\ Cardinality(RecentlyChecked) = 2
    /\ last.new # {} /\ last.fetched = {}

(***************************************************************************)
(* Properties of the shared Fingerprint Store                              *)
(***************************************************************************)

\* C16: after a crash that followed the upsert of a harvested page's
\* chunks, the restarted crawl manager loads a PageRecord of that page from
\* the file, and its next run does not classify the page as new.
C16_RecordsSurviveCrash ==
    \A m \in Managers :
        /\ mgr[m].pc = "loaded" => mgr[m].lost \subseteq DOMAIN mgr[m].info.pages
        /\ mgr[m].pc \in {"checked", "added", "done"}
              => mgr[m].new \cap mgr[m].lost = {}

\* Both crawl managers have returned from runs that overlapped in time and
\* whose URLs are disjoint.
BothDoneConcurrently ==
    /\ \A m \in Managers : mgr[m].pc = "done" /\ mgr[m].overlapped
    /\ \A m, o \in Managers : m # o => mgr[m].urls \cap mgr[o].urls = {}

\* C17: after two crawl managers have run concurrently on disjoint URLs,
\* the file holds the PageRecords written by both.
C17_ConcurrentWritesKept ==
    BothDoneConcurrently
        => \A m \in Managers : mgr[m].written \subseteq DOMAIN disk.pages

(***************************************************************************)
(* Properties of the Knowledge Store                                       *)
(***************************************************************************)

\* C18: add_document with an id that the store already holds returns false
\* and leaves the store as it was; no call changes or removes a stored
\* document and no id is stored twice, so the text under an id is that of
\* the first successful add.
C18_ExistingIdKept ==
    last.op = "add_document"
        => /\ last.existed => (~last.ok /\ kb = last.before)
           /\ last.before \subseteq kb
           /\ last.ok <=> (last.doc \in kb /\ last.doc \notin last.before)
           /\ \A d, e \in kb : d.id = e.id => d = e

\* A working store is handed another text under an id that it holds, and
\* refuses it.
C18_Witness ==
    /\ last.op = "add_document" /\ last.existed /\ last.storeOk
    /\ Strip(last.doc.text) # <<>>
    /\ \E d \in kb : d.id = last.doc.id /\ d.text # last.doc.text
    /\ ~last.ok

(***************************************************************************)
(* Properties of the chunk ids                                             *)
(***************************************************************************)

\* The page of the site at url is one that the Relevance Gate admits.
AdmissiblePage(url) ==
    /\ ScrapeSinglePage(site, url) # None
    /\ IsLegalContent(ScrapeSinglePage(site, url).content,
                      ScrapeSinglePage(site, url).title, url).is_legal

\* C19: chunks that differ in source URL, chunk index or harvest get
\* different ids, so the store holds a chunk of this harvest for every
\* admissible page that a harvest has scraped: none was rejected because
\* its id belonged to a chunk of another page.
C19_NoChunkRejectedForItsId ==
    last.op \in {"scrape_and_add", "incremental_scrape"}
        => \A u \in last.scraped :
              AdmissiblePage(u)
                 => \E d \in kb : d.url = u /\ d.id[2] = stamp - 1

(***************************************************************************)
(* Properties of the fingerprint                                           *)
(***************************************************************************)

\* C20: texts that differ only in letter case or in whitespace have the
\* same fingerprint, so check_for_changes does not classify as changed a
\* page of which only the whitespace and the letter case were edited since
\* the previous operation.
C20_WhitespaceEditNotChanged ==
    /\ \A u \in URLs :
          GetContentHash(<<"sp">> \o Respaced(site[u].text)) = GetContentHash(site[u].text)
    /\ Ran => last.respaced \cap last.changed = {}

(***************************************************************************)
(* Properties of the Relevance Gate's score                                *)
(***************************************************************************)

\* C21: the score that is_legal_content returns lies between 0 and 1.
C21_ScoreWithinUnitInterval ==
    fOut.done => (0 <= fOut.res.score /\ fOut.res.score <= TScale)

C23_ResultOrderedBestFirst ==
    (gOut.done /\ gOut.res.docs # <<>>) =>
        /\ Sorted(gOut.res.docs)
        /\ gOut.res.docs[1].distance = MinDistance(gOut.res.docs)
        /\ \A i \in DOMAIN gOut.res.docs :
               gOut.res.docs[1].distance <= gOut.res.docs[i].distance

\* A result of two chunks at different distances, both kept.
C23_Witness ==
    /\ gOut.done
    /\ Len(gOut.res.docs) = 2
    /\ gOut.res.docs[1].distance < gOut.res.docs[2].distance
    /\ gOut.res.docs[1].content # gOut.res.docs[2].content

(***************************************************************************)
(* Properties of repeated calls of the Relevance Gate                      *)
(***************************************************************************)

C25_ChangedAgainAfterFailedFetch ==
    [][\A m \in Managers :
          (mgr[m].pc = "discovered" /\ mgr'[m].pc \in {"checked", "done"}) =>
             \A e \in mgr[m].missed :
                (/\ e.url \in mgr[m].urls
                 /\ now - e.at >= CheckIntervalHours
                 /\ FetchOk(site, e.url)
                 /\ GetContentHash(site[e.url].text) = e.content_hash)
                    => e.url \in mgr'[m].changed]_vars

(***************************************************************************)
(* Properties of the records of other domains                              *)
(***************************************************************************)

\* C26: a run of incremental_scrape for a start_url of one domain leaves
\* the page records of every other domain as they were: it does not
\* classify them as deleted and does not remove or change them.
C26_OtherDomainsUntouched ==
    Ran => \A u \in last.known :
              Domain(u) # RunDomain =>
                 /\ u \notin last.deleted
                 /\ u \in DOMAIN disk.pages
                 /\ disk.pages[u] = last.loaded.pages[u]

(***************************************************************************)
(* Properties of the decision to search the portal                         *)
(***************************************************************************)

\* C27: handle_question, for a question it accepts, starts the fallback
\* search exactly when should_use_dynamic_search reports needs_fallback for
\* that question on the Knowledge Store as it is.
C27_FallbackIffGateSaysSo ==
    [][(stamp' = stamp + 1 /\ last'.op = "handle_question" /\ last'.accepted)
          => (last'.searched
                <=> ShouldUseDynamicSearch(kb, last'.question, TRUE).needs_fallback)]_vars

(***************************************************************************)
(* Properties of an empty site map                                         *)
(***************************************************************************)

\* C28: when the file holds, from a traversal that fetched no page, an
\* empty site map of the domain scanned less than seven days ago, the
\* discovery of a run traverses the site again: the empty map is not
\* served from the cache.
C28_EmptyMapNotServed ==
    (Ran /\ FreshMap /\ last.loaded.site_maps[RunDomain].urls = {})
        => (~last.cached /\ last.discovered.fetched # <<>>)

(***************************************************************************)
(* Properties of the admin panel's background commands                     *)
(***************************************************************************)

\* The record of the process shows a final status.
Terminal(p) ==
    /\ p \in DOMAIN running_processes
    /\ running_processes[p].status \in Outcomes

\* The record of the process shows the status running.
ShownRunning(p) ==
    /\ p \in DOMAIN running_processes
    /\ running_processes[p].status = "running"

\* C29: the status of every background command that was started becomes
\* completed, timeout or error at some time, and a command whose status is
\* one of these is never shown as running again.
C29_BecomesAndStaysTerminal ==
    \A p \in ProcessIds :
        /\ (threads[p].worker # "none") ~> Terminal(p)
        /\ [](Terminal(p) => []~ShownRunning(p))

(***************************************************************************)
(* Properties of split_text                                                *)
(***************************************************************************)

\* C30: every chunk that split_text returns is at most chunk_size
\* characters long.
C30_ChunksWithinChunkSize ==
    sOut.done => \A i \in DOMAIN sOut.chunks : RLen(sOut.chunks[i]) <= sIn.chunk_size

====
